---------------------------- MODULE Spec2Model ----------------------------
(***************************************************************************)
(* A model of pg_anonymous: the rule template engine (Rules.hpp) and the   *)
(* dump stream transducer (DataProcessor.cpp).                             *)
(*                                                                         *)
(* A std::string is a sequence of one-character strings; indices are the   *)
(* code's indices plus one.  A rule object is a record whose kind names    *)
(* its class.  A function that can raise returns a record whose kind is    *)
(* "Throw" in place of its result.                                         *)
(***************************************************************************)
EXTENDS Integers, Sequences, FiniteSets, TLC

(***************************************************************************)
(* Bounds of the model.                                                    *)
(***************************************************************************)
MaxArgs == 5
MaxLines == 3

(***************************************************************************)
(* Characters.                                                             *)
(***************************************************************************)
Printable ==
  <<" ", "!", "\"", "#", "$", "%", "&", "'", "(", ")", "*", "+", ",", "-",
    ".", "/", "0", "1", "2", "3", "4", "5", "6", "7", "8", "9", ":", ";",
    "<", "=", ">", "?", "@", "A", "B", "C", "D", "E", "F", "G", "H", "I",
    "J", "K", "L", "M", "N", "O", "P", "Q", "R", "S", "T", "U", "V", "W",
    "X", "Y", "Z", "[", "\\", "]", "^", "_", "GRAVE", "a", "b", "c", "d", "e",
    "f", "g", "h", "i", "j", "k", "l", "m", "n", "o", "p", "q", "r", "s",
    "t", "u", "v", "w", "x", "y", "z", "{", "|", "}", "~">>

\* static_cast<unsigned char>(c): the byte of a character.  Code 96 has no
\* one-character string here and is held by a placeholder.
Ord(c) ==
  IF c = "\t" THEN 9
  ELSE 31 + (CHOOSE k \in 1..Len(Printable) : Printable[k] = c)

Chr(n) == IF n = 9 THEN "\t" ELSE Printable[n - 31]

\* ::isspace, and the regex class \s, on the characters above.
isspace(c) == c \in {" ", "\t"}

\* The regex class \w.
IsWord(c) ==
  LET n == Ord(c)
  IN  (48 <= n /\ n <= 57) \/ (65 <= n /\ n <= 90) \/ (97 <= n /\ n <= 122)
      \/ c = "_"

\* Case folding of std::regex::icase.
ToLower(c) ==
  LET n == Ord(c) IN IF 65 <= n /\ n <= 90 THEN Chr(n + 32) ELSE c

Digits == <<"0", "1", "2", "3", "4", "5", "6", "7", "8", "9">>

IsDigit(c) == \E k \in 1..10 : Digits[k] = c

DigitVal(c) == (CHOOSE k \in 1..10 : Digits[k] = c) - 1

(***************************************************************************)
(* Sequence helpers.                                                       *)
(***************************************************************************)
RECURSIVE Concat(_)
Concat(ss) == IF ss = <<>> THEN <<>> ELSE Head(ss) \o Concat(Tail(ss))

RECURSIVE Filter(_, _)
\* std::remove / std::remove_if followed by erase: drop the characters in bad.
Filter(s, bad) ==
  IF s = <<>> THEN <<>>
  ELSE IF Head(s) \in bad THEN Filter(Tail(s), bad)
       ELSE <<Head(s)>> \o Filter(Tail(s), bad)

\* std::string::find(ch): the first index of ch in s, 0 for npos.
Find(s, ch) ==
  IF \E k \in 1..Len(s) : s[k] = ch
  THEN CHOOSE k \in 1..Len(s) : s[k] = ch /\ \A m \in 1..(k - 1) : s[m] # ch
  ELSE 0

\* std::string::find_last_of(ch): the last index of ch in s, 0 for npos.
FindLast(s, ch) ==
  IF \E k \in 1..Len(s) : s[k] = ch
  THEN CHOOSE k \in 1..Len(s) :
         s[k] = ch /\ \A m \in (k + 1)..Len(s) : s[m] # ch
  ELSE 0

\* std::getline(ss, tok, delim) until it fails: the fields ended by delim,
\* and a last field only when characters remain after the last delim.
RECURSIVE getline_all(_, _, _)
getline_all(s, delim, cur) ==
  IF s = <<>> THEN (IF cur = <<>> THEN <<>> ELSE <<cur>>)
  ELSE IF Head(s) = delim THEN <<cur>> \o getline_all(Tail(s), delim, <<>>)
       ELSE getline_all(Tail(s), delim, Append(cur, Head(s)))

\* trim of RuleFactory and of ConditionalRule: the same code twice.
trim(str) ==
  LET keep == {k \in 1..Len(str) : str[k] \notin {" ", "\t"}}
  IN  IF keep = {} THEN <<>>
      ELSE LET first == CHOOSE k \in keep : \A m \in keep : k <= m
               last == CHOOSE k \in keep : \A m \in keep : m <= k
           IN  SubSeq(str, first, last)

(***************************************************************************)
(* Decimal rendering and parsing.                                          *)
(***************************************************************************)
RECURSIVE NatString(_)
NatString(n) ==
  IF n < 10 THEN <<Digits[n + 1]>>
  ELSE NatString(n \div 10) \o <<Digits[(n % 10) + 1]>>

\* std::to_string(int).
to_string(n) == IF n < 0 THEN <<"-">> \o NatString(0 - n) ELSE NatString(n)

IntMax == 2147483647

RECURSIVE stoi_digits(_, _, _, _)
\* The digits of std::stoi: ok = FALSE is std::out_of_range.
stoi_digits(s, k, acc, neg) ==
  IF k > Len(s) \/ ~IsDigit(s[k]) THEN [ok |-> TRUE, val |-> IF neg THEN 0 - acc ELSE acc]
  ELSE LET d == DigitVal(s[k])
       IN  IF acc > (IntMax - d) \div 10
           THEN (IF neg /\ acc = 214748364 /\ d = 8
                    /\ (k = Len(s) \/ ~IsDigit(s[k + 1]))
                 THEN [ok |-> TRUE, val |-> (0 - IntMax) - 1]
                 ELSE [ok |-> FALSE, val |-> 0])
           ELSE stoi_digits(s, k + 1, acc * 10 + d, neg)

\* std::stoi(str): skips leading white space, takes an optional sign and the
\* longest run of digits; ok = FALSE when it throws (no digit: invalid_argument,
\* too large: out_of_range).
stoi(str) ==
  LET nonsp == {k \in 1..Len(str) : ~isspace(str[k])}
      b == IF nonsp = {} THEN Len(str) + 1
           ELSE CHOOSE k \in nonsp : \A m \in nonsp : k <= m
      signed == b <= Len(str) /\ str[b] \in {"+", "-"}
      neg == b <= Len(str) /\ str[b] = "-"
      d0 == IF signed THEN b + 1 ELSE b
  IN  IF d0 > Len(str) \/ ~IsDigit(str[d0]) THEN [ok |-> FALSE, val |-> 0]
      ELSE stoi_digits(str, d0, 0, neg)

(***************************************************************************)
(* 32-bit unsigned arithmetic on <<high 16 bits, low 16 bits>>.            *)
(***************************************************************************)
Half == 65536

\* The values of uint32_t and unsigned int.
U32 == (0..(Half - 1)) \X (0..(Half - 1))

RECURSIVE Xor(_, _)
Xor(a, b) ==
  IF a = 0 THEN b
  ELSE IF b = 0 THEN a
       ELSE 2 * Xor(a \div 2, b \div 2) + (((a % 2) + (b % 2)) % 2)

\* u ^= byte.
U32XorByte(u, byte) == <<u[1], Xor(u[2], byte)>>

\* u * (mhi * 65536 + mlo) modulo 2^32, for mhi, mlo < 2^10.
U32Mul(u, mhi, mlo) ==
  LET t == u[2] * mlo
  IN  <<((t \div Half) + u[1] * mlo + u[2] * mhi) % Half, t % Half>>

\* u + n modulo 2^32, for 0 <= n < 2^16.
U32Add(u, n) ==
  LET t == u[2] + n IN <<(u[1] + (t \div Half)) % Half, t % Half>>

RECURSIVE U32String(_)
\* std::to_string(unsigned int).
U32String(u) ==
  IF u[1] = 0 /\ u[2] < 10 THEN <<Digits[u[2] + 1]>>
  ELSE LET r1 == (u[1] % 10) * Half + u[2]
       IN  U32String(<<u[1] \div 10, r1 \div 10>>) \o <<Digits[(r1 % 10) + 1]>>

(***************************************************************************)
(* std::regex on the patterns the model draws: ordinary characters, the    *)
(* wildcard "." and "[", which opens a bracket expression that is never    *)
(* closed.                                                                 *)
(***************************************************************************)
\* std::regex(pattern) constructs; FALSE when it throws std::regex_error.
regex_valid(pattern) == \A k \in 1..Len(pattern) : pattern[k] # "["

AtomMatches(p, c) == p = "." \/ p = c

\* std::regex_match(s, pattern): the pattern matches the whole of s.
regex_match(s, pattern) ==
  Len(s) = Len(pattern) /\ \A k \in 1..Len(s) : AtomMatches(pattern[k], s[k])

MatchesAt(s, k, pattern) ==
  k + Len(pattern) - 1 <= Len(s)
  /\ \A m \in 1..Len(pattern) : AtomMatches(pattern[m], s[k + m - 1])

RECURSIVE replace_scan(_, _, _, _)
replace_scan(s, k, pattern, fmt) ==
  IF k > Len(s) THEN (IF pattern = <<>> THEN fmt ELSE <<>>)
  ELSE IF pattern = <<>> THEN fmt \o <<s[k]>> \o replace_scan(s, k + 1, pattern, fmt)
       ELSE IF MatchesAt(s, k, pattern)
            THEN fmt \o replace_scan(s, k + Len(pattern), pattern, fmt)
            ELSE <<s[k]>> \o replace_scan(s, k + 1, pattern, fmt)

\* std::regex_replace(s, pattern, fmt), fmt holding no "$": every match, left
\* to right and not overlapping, is replaced by fmt.
regex_replace(s, pattern, fmt) == replace_scan(s, 1, pattern, fmt)

(***************************************************************************)
(* The rule classes: constructors.                                         *)
(***************************************************************************)
Thrown == [kind |-> "Throw"]

NoneRule == [kind |-> "None"]

StaticTextRule(text) == [kind |-> "Literal", text |-> text]

RandomIntRule(min, max) == [kind |-> "RandomInt", min |-> min, max |-> max]

PickRule(options) == [kind |-> "Pick", options |-> options]

\* The constructor builds std::regex(pattern), which throws on a bad pattern.
RegexRule(pattern, replacement_rule) ==
  IF regex_valid(pattern)
  THEN [kind |-> "Regex", pattern |-> pattern, replacement |-> replacement_rule]
  ELSE Thrown

HashRule(salt) == [kind |-> "Hash", salt |-> salt]

\* The constructor builds std::regex(pattern), which throws on a bad pattern.
MatchesRule(col, pattern) ==
  IF regex_valid(pattern)
  THEN [kind |-> "Matches", col |-> col, pattern |-> pattern]
  ELSE Thrown

ConditionalRule(cond_rule, op, val, t_rule, f_rule) ==
  [kind |-> "Conditional", cond |-> cond_rule, op |-> op, val |-> val,
   t |-> t_rule, f |-> f_rule]

CompositeRule(sub_rules) == [kind |-> "Composite", subs |-> sub_rules]

(***************************************************************************)
(* RowContext.                                                             *)
(***************************************************************************)
RowContext(headers, row_values) ==
  [headers |-> headers, row_values |-> row_values]

\* A lookup that takes the last cell when the row is too short.
get_column_value_clamped(context, col_name) ==
  LET index == CHOOSE k \in 1..(Len(context.headers) + 1) :
                 /\ k <= Len(context.headers) => context.headers[k] = col_name
                 /\ \A m \in 1..(k - 1) : context.headers[m] # col_name
      n == Len(context.row_values)
  IN  IF index <= Len(context.headers) /\ n > 0
      THEN context.row_values[IF index <= n THEN index ELSE n]
      ELSE <<>>

get_column_value(context, col_name) ==
  LET index == CHOOSE k \in 1..(Len(context.headers) + 1) :
                 /\ k <= Len(context.headers) => context.headers[k] = col_name
                 /\ \A m \in 1..(k - 1) : context.headers[m] # col_name
  IN  IF index <= Len(context.headers) /\ index <= Len(context.row_values)
      THEN context.row_values[index]
      ELSE <<>>

(***************************************************************************)
(* The rule classes: apply.  A rule that draws at random has several       *)
(* possible results, so every apply is the set of its possible results.    *)
(***************************************************************************)
FnvOffset == <<33052, 40389>>

RECURSIVE fnv_mix_from(_, _, _)
\* The loop from the k-th character of str on.
fnv_mix_from(hash, str, k) ==
  IF k > Len(str) THEN hash
  ELSE LET next == U32Mul(U32XorByte(hash, Ord(str[k])), 256, 403)
       IN  IF next \in U32 THEN fnv_mix_from(next, str, k + 1) ELSE next

\* for (char c : str) { hash ^= (unsigned char)c; hash *= 16777619u; }
fnv_mix(hash, str) == fnv_mix_from(hash, str, 1)

\* A digest that also mixes the first cell of the row in.
HashRule_apply_row(rule, original_value, context) ==
  LET first == IF context.row_values = <<>> THEN <<>> ELSE context.row_values[1]
      hash == fnv_mix(fnv_mix(fnv_mix(FnvOffset, U32String(rule.salt)),
                              original_value), first)
  IN  {NatString((hash[1] % 32768) * Half + hash[2])}

\* A digest rendered without the mask.
HashRule_apply_unmasked(rule, original_value, context) ==
  LET hash == fnv_mix(fnv_mix(FnvOffset, U32String(rule.salt)), original_value)
  IN  {U32String(hash)}

HashRule_apply(rule, original_value, context) ==
  LET hash == fnv_mix(fnv_mix(FnvOffset, U32String(rule.salt)), original_value)
  IN  {NatString((hash[1] % 32768) * Half + hash[2])}

MatchesRule_apply(rule, original_value, context) ==
  LET actual_val == get_column_value(context, rule.col)
  IN  IF regex_match(actual_val, rule.pattern)
      THEN {<<"t", "r", "u", "e">>}
      ELSE {<<"f", "a", "l", "s", "e">>}

OpEQ == <<"E", "Q">>
OpNEQ == <<"N", "E", "Q">>
OpIN == <<"I", "N">>

\* The IN arm: the fields std::getline cuts target_val into at ",", each
\* trimmed, compared with actual_val.
in_match(target_val, actual_val) ==
  LET entries == getline_all(target_val, ",", <<>>)
  IN  \E k \in 1..Len(entries) : trim(entries[k]) = actual_val

\* A comparison that reads the operator without regard to case.
conditional_match_any_case(op, target_val, actual_val) ==
  LET lower == [k \in 1..Len(op) |-> ToLower(op[k])]
  IN  IF lower = <<"e", "q">> THEN actual_val = target_val
      ELSE IF lower = <<"n", "e", "q">> THEN actual_val # target_val
           ELSE IF lower = <<"i", "n">> THEN in_match(target_val, actual_val)
                ELSE FALSE

\* The value of match in ConditionalRule::apply.
conditional_match(op, target_val, actual_val) ==
  IF op = OpEQ THEN actual_val = target_val
  ELSE IF op = OpNEQ THEN actual_val # target_val
       ELSE IF op = OpIN THEN in_match(target_val, actual_val)
            ELSE FALSE

\* The outcome of an apply that ends the process (a segmentation fault, an
\* abort): no string, a mark that every enclosing apply hands on.
Crashed == <<"SIGSEGV">>

\* min > max breaks the precondition of std::uniform_int_distribution: the
\* behaviour is undefined.  The process may end (libstdc++ 12 does not
\* return from the draw, or aborts where its assertions are on), or an int
\* outside min..max may come out.
RandomIntRule_apply(rule, original_value, context) ==
  IF rule.min <= rule.max
  THEN {to_string(r) : r \in rule.min..rule.max}
  ELSE {Crashed} \cup {to_string(r) : r \in {rule.max, rule.min, 0}}

PickRule_apply(rule, original_value, context) ==
  IF rule.options = <<>> THEN {<<>>}
  ELSE {rule.options[k] : k \in 1..Len(rule.options)}

RECURSIVE apply(_, _, _), composite_apply(_, _, _)
apply(rule, original_value, context) ==
  CASE rule.kind = "None" -> {original_value}
    [] rule.kind = "Literal" -> {rule.text}
    [] rule.kind = "RandomInt" -> RandomIntRule_apply(rule, original_value, context)
    [] rule.kind = "Pick" -> PickRule_apply(rule, original_value, context)
    [] rule.kind = "Regex" ->
         {IF t = Crashed THEN Crashed
          ELSE regex_replace(original_value, rule.pattern, t) :
            t \in apply(rule.replacement, original_value, context)}
    [] rule.kind = "Hash" -> HashRule_apply(rule, original_value, context)
    [] rule.kind = "Matches" -> MatchesRule_apply(rule, original_value, context)
    [] rule.kind = "Conditional" ->
         UNION {IF actual_val = Crashed THEN {Crashed}
                ELSE IF conditional_match(rule.op, rule.val, actual_val)
                     THEN apply(rule.t, original_value, context)
                     ELSE apply(rule.f, original_value, context) :
                  actual_val \in apply(rule.cond, original_value, context)}
    [] rule.kind = "Composite" ->
         composite_apply(rule.subs, original_value, context)

\* CompositeRule::apply: the results of the sub-rules, in order, joined.
composite_apply(sub_rules, original_value, context) ==
  IF sub_rules = <<>> THEN {<<>>}
  ELSE UNION {IF h = Crashed THEN {Crashed}
              ELSE {IF t = Crashed THEN Crashed ELSE h \o t :
                      t \in composite_apply(Tail(sub_rules), original_value, context)} :
                h \in apply(Head(sub_rules), original_value, context)}

(***************************************************************************)
(* RuleFactory.  Every result is [rule, log]: the rule built, or Thrown,   *)
(* and the number of diagnostics written to std::cerr on the way.          *)
(***************************************************************************)
RECURSIVE split_scan(_, _, _, _, _)
split_scan(s, k, args, current, nesting) ==
  IF k > Len(s) THEN Append(args, trim(current))
  ELSE LET c == s[k]
           n == IF c \in {"{", "("} THEN nesting + 1
                ELSE IF c \in {"}", ")"} THEN nesting - 1
                     ELSE nesting
       IN  IF c = "," /\ n = 0
           THEN split_scan(s, k + 1, Append(args, trim(current)), <<>>, n)
           ELSE split_scan(s, k + 1, args, Append(current, c), n)

smart_split_args(s) == split_scan(s, 1, <<>>, <<>>, 0)

RECURSIVE find_close_first(_, _, _)
\* A search that does not count openers: the first "}}" closes the tag.
find_close_first(raw, j, depth) ==
  IF j > Len(raw) THEN 0
  ELSE IF j > 1 /\ raw[j] = "}" /\ raw[j - 1] = "}" THEN j
       ELSE find_close_first(raw, j + 1, depth)

RECURSIVE find_close(_, _, _)
\* The inner loop of parse_template: the index where depth reaches 0, or 0
\* when the input ends first (found_end stays false).
find_close(raw, j, depth) ==
  IF j > Len(raw) THEN 0
  ELSE LET d == IF raw[j] = "{" THEN depth + 1
                ELSE IF raw[j] = "}" THEN depth - 1
                     ELSE depth
       IN  IF d = 0 THEN j ELSE find_close(raw, j + 1, d)

RECURSIVE salt_from(_, _, _)
\* The loop from the k-th character of the argument on.
salt_from(salt, str, k) ==
  IF k > Len(str) THEN salt
  ELSE LET next == U32Add(U32Mul(salt, 0, 31), Ord(str[k]))
       IN  IF next \in U32 THEN salt_from(next, str, k + 1) ELSE next

\* unsigned salt = 0; for (char c : args[0]) salt = salt * 31 + c;
salt_of(str) == salt_from(<<0, 0>>, str, 1)

NameNONE == <<"N", "O", "N", "E">>
NameRAND == <<"R", "A", "N", "D">>
NameHASH == <<"H", "A", "S", "H">>
NamePICK == <<"P", "I", "C", "K">>
NameREGEX == <<"R", "E", "G", "E", "X">>
NameLITERAL == <<"L", "I", "T", "E", "R", "A", "L">>
NameMATCHES == <<"M", "A", "T", "C", "H", "E", "S">>
NameIF == <<"I", "F">>

\* The last two statements of create_func_rule: the warning and the empty
\* StaticTextRule.
unknown_function(log) == [rule |-> StaticTextRule(<<>>), log |-> log + 1]

RECURSIVE parse_template(_), parse_scan(_, _, _, _, _), create_func_rule(_)
create_func_rule(func_def) ==
  LET paren_start == Find(func_def, "(")
      paren_end == FindLast(func_def, ")")
      raw_name == IF paren_start = 0 THEN func_def
                  ELSE SubSeq(func_def, 1, paren_start - 1)
      args_str == IF paren_start # 0 /\ paren_end # 0 /\ paren_end > paren_start
                  THEN SubSeq(func_def, paren_start + 1, paren_end - 1)
                  ELSE <<>>
      name == Filter(raw_name, {" ", "\t"})
      args == smart_split_args(args_str)
  IN  IF name = NameNONE THEN [rule |-> NoneRule, log |-> 0]
      ELSE IF name = NameRAND /\ Len(args) = 2
      THEN LET lo == stoi(args[1])
               hi == stoi(args[2])
           IN  IF lo.ok /\ hi.ok
               THEN [rule |-> RandomIntRule(lo.val, hi.val), log |-> 0]
               ELSE unknown_function(0)
      ELSE IF name = NameHASH /\ Len(args) = 1
      THEN [rule |-> HashRule(salt_of(args[1])), log |-> 0]
      ELSE IF name = NamePICK THEN [rule |-> PickRule(args), log |-> 0]
      ELSE IF name = NameREGEX /\ Len(args) >= 2
      THEN LET replacement_rule == parse_template(args[2])
           IN  IF replacement_rule.rule.kind = "Throw" THEN replacement_rule
               ELSE [rule |-> RegexRule(args[1], replacement_rule.rule),
                     log |-> replacement_rule.log]
      ELSE IF name = NameLITERAL /\ args # <<>>
      THEN [rule |-> StaticTextRule(args[1]), log |-> 0]
      ELSE IF name = NameMATCHES /\ Len(args) = 2
      THEN LET made == MatchesRule(args[1], args[2])
           IN  IF made.kind = "Throw" THEN unknown_function(1)
               ELSE [rule |-> made, log |-> 0]
      ELSE IF name = NameIF /\ Len(args) = 5
      THEN LET condition_rule == parse_template(args[1])
               true_rule == parse_template(args[4])
               false_rule == parse_template(args[5])
           IN  IF condition_rule.rule.kind = "Throw" THEN condition_rule
               ELSE IF true_rule.rule.kind = "Throw"
               THEN [rule |-> Thrown, log |-> condition_rule.log + true_rule.log]
               ELSE IF false_rule.rule.kind = "Throw"
               THEN [rule |-> Thrown,
                     log |-> condition_rule.log + true_rule.log + false_rule.log]
               ELSE [rule |-> ConditionalRule(condition_rule.rule, args[2], args[3],
                                              true_rule.rule, false_rule.rule),
                     log |-> condition_rule.log + true_rule.log + false_rule.log]
      ELSE unknown_function(0)

\* The scan of parse_template from index i, with last_pos and the sub-rules
\* added so far.
parse_scan(raw, i, last_pos, sub_rules, log) ==
  LET len == Len(raw)
      remaining(subs) ==
        IF last_pos <= len
        THEN Append(subs, StaticTextRule(SubSeq(raw, last_pos, len)))
        ELSE subs
  IN  IF i > len
      THEN [rule |-> CompositeRule(remaining(sub_rules)), log |-> log]
      ELSE IF i + 1 <= len /\ raw[i] = "{" /\ raw[i + 1] = "{"
      THEN LET before == IF i > last_pos
                         THEN Append(sub_rules,
                                     StaticTextRule(SubSeq(raw, last_pos, i - 1)))
                         ELSE sub_rules
               start_content == i + 2
               j == find_close(raw, start_content, 2)
           IN  IF j = 0
               THEN [rule |-> CompositeRule(remaining(before)), log |-> log]
               ELSE LET made == create_func_rule(SubSeq(raw, start_content, j - 2))
                    IN  IF made.rule.kind = "Throw"
                        THEN [rule |-> Thrown, log |-> log + made.log]
                        ELSE parse_scan(raw, j + 1, j + 1,
                                        Append(before, made.rule), log + made.log)
      ELSE parse_scan(raw, i + 1, last_pos, sub_rules, log)

parse_template(raw_template) == parse_scan(raw_template, 1, 1, <<>>, 0)

(***************************************************************************)
(* DataProcessor: the two line patterns of process_dump.                   *)
(***************************************************************************)
\* The first index from k on that holds no white space (Len(s) + 1 if none).
SkipWs(s, k) ==
  CHOOSE e \in k..(Len(s) + 1) :
    /\ \A m \in k..(e - 1) : isspace(s[m])
    /\ e <= Len(s) => ~isspace(s[e])

\* word (in lower case) stands at index k of s, letter case ignored.
WordAt(s, k, word) ==
  k + Len(word) - 1 <= Len(s)
  /\ \A m \in 1..Len(word) : ToLower(s[k + m - 1]) = word[m]

WsAt(s, k) == k <= Len(s) /\ isspace(s[k])

\* \s+FROM\s+stdin\s*;\s*$ matches s from index k to its end.
copy_tail(s, k) ==
  /\ WsAt(s, k)
  /\ LET f == SkipWs(s, k)
     IN  /\ WordAt(s, f, <<"f", "r", "o", "m">>)
         /\ WsAt(s, f + 4)
         /\ LET d == SkipWs(s, f + 4)
            IN  /\ WordAt(s, d, <<"s", "t", "d", "i", "n">>)
                /\ LET c == SkipWs(s, d + 5)
                   IN  /\ c <= Len(s)
                       /\ s[c] = ";"
                       /\ SkipWs(s, c + 1) = Len(s) + 1

\* std::regex_match(line, matches, copy_pattern) with
\* ^\s*COPY\s+([\w\.]+)\s*(\([^;]+\))?\s+FROM\s+stdin\s*;\s*$ and icase:
\* matched, matches[1] (table), matches[2].matched (has_cols), matches[2].
copy_pattern(line) ==
  LET no == [matched |-> FALSE, table |-> <<>>, has_cols |-> FALSE, cols |-> <<>>]
      c == SkipWs(line, 1)
      n0 == SkipWs(line, c + 4)
      n1 == CHOOSE e \in n0..(Len(line) + 1) :
              /\ \A m \in n0..(e - 1) : IsWord(line[m]) \/ line[m] = "."
              /\ e <= Len(line) => ~(IsWord(line[e]) \/ line[e] = ".")
      g0 == SkipWs(line, n1)
      closes == {e \in (g0 + 2)..Len(line) :
                   /\ line[e] = ")"
                   /\ \A m \in (g0 + 1)..(e - 1) : line[m] # ";"
                   /\ copy_tail(line, e + 1)}
  IN  IF ~(WordAt(line, c, <<"c", "o", "p", "y">>) /\ WsAt(line, c + 4) /\ n1 > n0)
      THEN no
      ELSE IF g0 <= Len(line) /\ line[g0] = "(" /\ closes # {}
      THEN LET e == CHOOSE x \in closes : \A y \in closes : y <= x
           IN  [matched |-> TRUE, table |-> SubSeq(line, n0, n1 - 1),
                has_cols |-> TRUE, cols |-> SubSeq(line, g0, e)]
      ELSE IF copy_tail(line, n1)
      THEN [matched |-> TRUE, table |-> SubSeq(line, n0, n1 - 1),
            has_cols |-> FALSE, cols |-> <<>>]
      ELSE no

\* std::regex_match(line, end_pattern) with ^\s*\\\.\s*$.
end_pattern(line) ==
  LET b == SkipWs(line, 1)
  IN  /\ b + 1 <= Len(line)
      /\ line[b] = "\\"
      /\ line[b + 1] = "."
      /\ SkipWs(line, b + 2) = Len(line) + 1

\* The columns parse_copy_columns appends to an empty vector.
parse_copy_columns(raw_columns) ==
  LET start == Find(raw_columns, "(")
      end == FindLast(raw_columns, ")")
  IN  IF start = 0 \/ end = 0 \/ end <= start THEN <<>>
      ELSE LET columns_str ==
                 Filter(Filter(SubSeq(raw_columns, start + 1, end - 1), {" "}), {"\""})
           IN  SelectSeq(getline_all(columns_str, ",", <<>>), LAMBDA col : col # <<>>)

(***************************************************************************)
(* DataProcessor: the catalog.  The configuration is the sequence of       *)
(* (table, column, template) entries that load_rules visits, in order.     *)
(***************************************************************************)
RECURSIVE load_rules(_, _)
\* The loop of load_rules over the entries left, with the rules built so
\* far: [thrown, rules], thrown when parse_template raises.
load_rules(config, rules) ==
  IF config = <<>> THEN [thrown |-> FALSE, rules |-> rules]
  ELSE LET e == Head(config)
           made == parse_template(e.template)
           old == IF e.table \in DOMAIN rules THEN rules[e.table] ELSE <<>>
           cols == (DOMAIN old) \cup {e.col}
           new == [c \in cols |-> IF c = e.col THEN made.rule ELSE old[c]]
       IN  IF made.rule.kind = "Throw" THEN [thrown |-> TRUE, rules |-> <<>>]
           ELSE load_rules(Tail(config),
                           [t \in (DOMAIN rules) \cup {e.table} |->
                              IF t = e.table THEN new ELSE rules[t]])

\* The constructor: replacement_rules_ stays empty when load_rules raises
\* (the exception is caught and reported).
DataProcessor(config) ==
  LET loaded == load_rules(config, <<>>)
  IN  IF loaded.thrown THEN <<>> ELSE loaded.rules

(***************************************************************************)
(* DataProcessor: one data row.                                            *)
(***************************************************************************)
\* A context that reads the working values.
row_context_working(columns, original_row_values, working_row_values) ==
  RowContext(columns, working_row_values)

\* RowContext ctx{columns, original_row_values}: ctx refers to the original
\* values, whatever the working values have become.
row_context(columns, original_row_values, working_row_values) ==
  RowContext(columns, original_row_values)

\* The test without its column-list half.
has_rules_any_columns(rules, current_table, columns) ==
  current_table \in DOMAIN rules

\* replacement_rules_.count(current_table) && !columns.empty()
has_rules(rules, current_table, columns) ==
  current_table \in DOMAIN rules /\ columns # <<>>

RECURSIVE row_scan_previous_cell(_, _, _, _, _)
\* A loop over the cells that hands each rule the working value of the cell
\* before it, which an earlier rule may have rewritten.
row_scan_previous_cell(i, columns, table_rules, original, acc) ==
  IF i > Len(acc.working) THEN {acc}
  ELSE LET sep == IF i > 1 THEN <<"\t">> ELSE <<>>
           ruled == i <= Len(columns) /\ columns[i] \in DOMAIN table_rules
           read == IF i > 1 THEN acc.working[i - 1] ELSE acc.working[i]
           vals == IF ruled
                   THEN apply(table_rules[columns[i]], read,
                              row_context(columns, original, acc.working))
                   ELSE {acc.working[i]}
       IN  UNION {IF val = Crashed
                  THEN {[acc EXCEPT !.crashed = TRUE, !.processed_line = <<>>]}
                  ELSE row_scan_previous_cell(i + 1, columns, table_rules, original,
                           [working |-> [acc.working EXCEPT ![i] = val],
                            processed_line |-> acc.processed_line \o sep \o val,
                            applied |-> IF ruled THEN acc.applied \cup {i}
                                        ELSE acc.applied,
                            crashed |-> FALSE]) : val \in vals}

RECURSIVE row_scan(_, _, _, _, _)
\* The for loop over the cells from index i: the possible ends, each with
\* the working values, the processed line and the indices a rule rewrote.
\* An apply that ends the process ends the loop there (crashed): the cell is
\* not written, no later cell is handled and no processed line is made.
row_scan(i, columns, table_rules, original, acc) ==
  IF i > Len(acc.working) THEN {acc}
  ELSE LET sep == IF i > 1 THEN <<"\t">> ELSE <<>>
           ruled == i <= Len(columns) /\ columns[i] \in DOMAIN table_rules
           vals == IF ruled
                   THEN apply(table_rules[columns[i]], acc.working[i],
                              row_context(columns, original, acc.working))
                   ELSE {acc.working[i]}
       IN  UNION {IF val = Crashed
                  THEN {[acc EXCEPT !.crashed = TRUE, !.processed_line = <<>>]}
                  ELSE row_scan(i + 1, columns, table_rules, original,
                           [working |-> [acc.working EXCEPT ![i] = val],
                            processed_line |-> acc.processed_line \o sep \o val,
                            applied |-> IF ruled THEN acc.applied \cup {i}
                                        ELSE acc.applied,
                            crashed |-> FALSE]) : val \in vals}

\* The row branch of process_dump for a table with rules.
process_row(line, columns, table_rules) ==
  LET original_row_values == getline_all(line, "\t", <<>>)
  IN  row_scan(1, columns, table_rules, original_row_values,
               [working |-> original_row_values, processed_line |-> <<>>,
                applied |-> {}, crashed |-> FALSE])

\* A writer that leaves the end marker out.
emit_no_marker(out_lines, line) ==
  IF end_pattern(line) THEN out_lines ELSE Append(out_lines, line)

\* out << line << "\n"
emit(out_lines, line) == Append(out_lines, line)

(***************************************************************************)
(* The inputs the model draws: templates, configurations and dump lines.   *)
(***************************************************************************)
RECURSIVE JoinWith(_, _)
JoinWith(strs, sep) ==
  IF strs = <<>> THEN <<>>
  ELSE IF Len(strs) = 1 THEN Head(strs)
       ELSE Head(strs) \o sep \o JoinWith(Tail(strs), sep)

\* The text NAME(arg, ...) and the tag {{...}} around a function definition.
Call(name, args) == name \o <<"(">> \o JoinWith(args, <<",">>) \o <<")">>
Tag(func_def) == <<"{", "{">> \o func_def \o <<"}", "}">>

TplHashS == Tag(Call(NameHASH, <<<<"s">>>>))
TplNone == Tag(NameNONE)
TplMatchesA1 == Tag(Call(NameMATCHES, <<<<"a">>, <<"1">>>>))
TplIfMatchesA1 ==
  Tag(Call(NameIF, <<TplMatchesA1, OpEQ, <<"t", "r", "u", "e">>, <<"T">>, <<"F">>>>))
TplBadRegex == Tag(Call(NameREGEX, <<<<"[">>, <<"x">>>>))
TplBadMatches == Tag(Call(NameMATCHES, <<<<"a">>, <<"[">>>>))
TplUnknown == Tag(Call(<<"F", "O", "O">>, <<<<"1">>>>))
TplBadRand == Tag(Call(NameRAND, <<<<"x">>, <<"1">>>>))

TableT == <<"s", ".", "t">>
TableU == <<"s", ".", "u">>
TableV == <<"s", ".", "v">>
ColA == <<"a">>
ColB == <<"b">>

Entry(table, col, template) == [table |-> table, col |-> col, template |-> template]

Configs ==
  { <<>>,
    <<Entry(TableT, ColB, TplHashS)>>,
    <<Entry(TableT, ColA, <<"X">>), Entry(TableT, ColB, TplIfMatchesA1)>>,
    <<Entry(TableT, ColA, TplHashS), Entry(TableT, ColB, TplMatchesA1)>>,
    <<Entry(TableT, ColA, TplBadRegex), Entry(TableT, ColB, TplHashS)>>,
    <<Entry(TableT, ColA, TplUnknown), Entry(TableT, ColB, TplHashS),
      Entry(TableV, ColA, TplBadRand)>>,
    <<Entry(TableV, ColA, TplBadMatches), Entry(TableT, ColB, TplNone)>> }

CopyLine(table, cols) ==
  <<"C", "O", "P", "Y", " ">> \o table \o cols
    \o <<" ", "F", "R", "O", "M", " ", "s", "t", "d", "i", "n", ";">>

ColsAB == <<" ", "(", "a", ",", "b", ")">>

EndLine == <<"\\", ".">>

Lines ==
  { CopyLine(TableT, ColsAB), CopyLine(TableU, ColsAB), CopyLine(TableT, <<>>),
    EndLine,
    <<"1", "\t", "x">>, <<"1", "\t">>, <<"2", "\t", "y", "\t", "z">>, <<"1">> }

\* The two patterns on the lines the model draws, evaluated once.
LineCopy == [l \in Lines |-> copy_pattern(l)]
LineEnd == [l \in Lines |-> end_pattern(l)]

(***************************************************************************)
(* The transducer: construction, then process_dump line by line.           *)
(***************************************************************************)
VARIABLES config, replacement_rules, pc, state, current_table, columns,
          out_lines, trace, ret, io_error, scan,
          input, built, value, context, result, evaluated, hashed

\* io_error: "none", or the failure a stream met: "read" when std::getline
\* stopped on a read error, "write" when the output stream went bad.
\* scan: where the constructor is in load_rules: the templates still to be
\* parsed, the parse_template calls in progress, innermost first, and the
\* local rules filled so far.
dump_vars == <<config, replacement_rules, pc, state, current_table, columns,
               out_lines, trace, ret, io_error, scan>>

\* The state of the rule engine used on its own: the text given to the
\* factory, what it built, the last value and context a rule was applied to,
\* the result, and every (salt argument, value, context, result) a Hash node
\* was seen to produce.
rule_vars == <<input, built, value, context, result, evaluated, hashed>>

vars == <<dump_vars, rule_vars>>

\* load_rules has returned or raised: nothing left to parse, and its local
\* rules gone.
Loaded == [todo |-> <<>>, stack |-> <<>>, rules |-> <<>>]

Given(kind, name, args, text) ==
  [kind |-> kind, name |-> name, args |-> args, text |-> text]

RuleIdle ==
  /\ input = Given("none", <<>>, <<>>, <<>>)
  /\ built = [rule |-> StaticTextRule(<<>>), log |-> 0]
  /\ value = <<>>
  /\ context = RowContext(<<>>, <<>>)
  /\ result = <<>>
  /\ evaluated = FALSE
  /\ hashed = {}

\* What one iteration of the loop saw: the line, the parser state, table and
\* column list it was read in, and for a row rewritten by rules the working
\* values and the indices a rule was applied to.
Seen(line, kind, table, cols, working, applied) ==
  [line |-> line, kind |-> kind, state |-> state, table |-> table,
   columns |-> cols, working |-> working, applied |-> applied]

\* out << line << "\n" on the stream as it is: a stream that went bad takes
\* nothing more.
write(line) == IF io_error = "write" THEN out_lines ELSE emit(out_lines, line)

Init ==
  /\ config \in Configs
  /\ replacement_rules = DataProcessor(config)
  /\ pc = "open"
  /\ state = "SearchingForCopy"
  /\ current_table = <<>>
  /\ columns = <<>>
  /\ out_lines = <<>>
  /\ trace = <<>>
  /\ ret = -1
  /\ io_error = "none"
  /\ scan = Loaded
  /\ RuleIdle

\* if (!file.is_open() || !out.is_open()) return 1;
OpenFail ==
  /\ pc = "open"
  /\ pc' = "done"
  /\ ret' = 1
  /\ UNCHANGED <<config, replacement_rules, scan, state, current_table, columns,
                 out_lines, trace, io_error>>
  /\ UNCHANGED rule_vars

OpenOk ==
  /\ pc = "open"
  /\ pc' = "loop"
  /\ UNCHANGED <<config, replacement_rules, scan, state, current_table, columns,
                 out_lines, trace, ret, io_error>>
  /\ UNCHANGED rule_vars

CanRead == pc = "loop" /\ Len(trace) < MaxLines

\* A block start that writes the line rebuilt from the table name alone.
ReadCopyLine_rebuilt(line) ==
  /\ CanRead
  /\ state = "SearchingForCopy"
  /\ LineCopy[line].matched
  /\ LET m == LineCopy[line]
         cols == IF m.has_cols THEN parse_copy_columns(m.cols) ELSE <<>>
     IN  /\ current_table' = m.table
         /\ out_lines' = write(CopyLine(m.table, <<>>))
         /\ columns' = cols
         /\ state' = "ReadingData"
         /\ trace' = Append(trace, Seen(line, "copy", m.table, cols, <<>>, {}))
  /\ UNCHANGED <<config, replacement_rules, scan, pc, ret, io_error>>
  /\ UNCHANGED rule_vars

\* A block start that keeps the table name of the first block.
ReadCopyLine_first_table(line) ==
  /\ CanRead
  /\ state = "SearchingForCopy"
  /\ LineCopy[line].matched
  /\ LET m == LineCopy[line]
         cols == IF m.has_cols THEN parse_copy_columns(m.cols) ELSE <<>>
         table == IF current_table = <<>> THEN m.table ELSE current_table
     IN  /\ current_table' = table
         /\ out_lines' = write(line)
         /\ columns' = cols
         /\ state' = "ReadingData"
         /\ trace' = Append(trace, Seen(line, "copy", table, cols, <<>>, {}))
  /\ UNCHANGED <<config, replacement_rules, scan, pc, ret, io_error>>
  /\ UNCHANGED rule_vars

\* SearchingForCopy, the line matches copy_pattern.
ReadCopyLine(line) ==
  /\ CanRead
  /\ state = "SearchingForCopy"
  /\ LineCopy[line].matched
  /\ LET m == LineCopy[line]
         cols == IF m.has_cols THEN parse_copy_columns(m.cols) ELSE <<>>
     IN  /\ current_table' = m.table
         /\ out_lines' = write(line)
         /\ columns' = cols
         /\ state' = "ReadingData"
         /\ trace' = Append(trace, Seen(line, "copy", m.table, cols, <<>>, {}))
  /\ UNCHANGED <<config, replacement_rules, scan, pc, ret, io_error>>
  /\ UNCHANGED rule_vars

\* SearchingForCopy, the line does not match.
ReadOtherLine(line) ==
  /\ CanRead
  /\ state = "SearchingForCopy"
  /\ ~LineCopy[line].matched
  /\ out_lines' = write(line)
  /\ trace' = Append(trace, Seen(line, "other", current_table, columns, <<>>, {}))
  /\ UNCHANGED <<config, replacement_rules, scan, pc, state, current_table, columns, ret, io_error>>
  /\ UNCHANGED rule_vars

\* An end marker that leaves the parser state as it is.
ReadEndMarker_stay(line) ==
  /\ CanRead
  /\ state = "ReadingData"
  /\ LineEnd[line]
  /\ out_lines' = write(line)
  /\ columns' = <<>>
  /\ trace' = Append(trace, Seen(line, "end", current_table, columns, <<>>, {}))
  /\ UNCHANGED <<config, replacement_rules, scan, pc, state, current_table, ret, io_error>>
  /\ UNCHANGED rule_vars

\* ReadingData, the line matches end_pattern.
ReadEndMarker(line) ==
  /\ CanRead
  /\ state = "ReadingData"
  /\ LineEnd[line]
  /\ out_lines' = write(line)
  /\ state' = "SearchingForCopy"
  /\ columns' = <<>>
  /\ trace' = Append(trace, Seen(line, "end", current_table, columns, <<>>, {}))
  /\ UNCHANGED <<config, replacement_rules, scan, pc, current_table, ret, io_error>>
  /\ UNCHANGED rule_vars

\* ReadingData, a data row of a table with rules and a column list.
\* A rule whose apply ends the process ends process_dump with it: nothing
\* is returned, and the lines written so far, still in the buffer of the
\* output stream (they are far shorter than it), never reach the file.
ReadRuledRow(line) ==
  /\ CanRead
  /\ state = "ReadingData"
  /\ ~LineEnd[line]
  /\ has_rules(replacement_rules, current_table, columns)
  /\ \E r \in process_row(line, columns, replacement_rules[current_table]) :
       IF r.crashed
       THEN /\ pc' = "crashed"
            /\ out_lines' = <<>>
            /\ UNCHANGED trace
       ELSE /\ out_lines' = write(r.processed_line)
            /\ trace' = Append(trace, Seen(line, "ruled", current_table,
                                           columns, r.working, r.applied))
            /\ UNCHANGED pc
  /\ UNCHANGED <<config, replacement_rules, scan, state, current_table, columns, ret, io_error>>
  /\ UNCHANGED rule_vars

\* ReadingData, a data row written as it is.
ReadPlainRow(line) ==
  /\ CanRead
  /\ state = "ReadingData"
  /\ ~LineEnd[line]
  /\ ~has_rules(replacement_rules, current_table, columns)
  /\ out_lines' = write(line)
  /\ trace' = Append(trace, Seen(line, "plain", current_table, columns, <<>>, {}))
  /\ UNCHANGED <<config, replacement_rules, scan, pc, state, current_table, columns, ret, io_error>>
  /\ UNCHANGED rule_vars

\* std::getline fails at the end of the input: return 0.
EndOfInput ==
  /\ pc = "loop"
  /\ pc' = "done"
  /\ ret' = 0
  /\ UNCHANGED <<config, replacement_rules, scan, state, current_table, columns,
                 out_lines, trace, io_error>>
  /\ UNCHANGED rule_vars

Next ==
  \/ OpenFail
  \/ OpenOk
  \/ \E line \in Lines : ReadCopyLine(line)
  \/ \E line \in Lines : ReadOtherLine(line)
  \/ \E line \in Lines : ReadEndMarker(line)
  \/ \E line \in Lines : ReadRuledRow(line)
  \/ \E line \in Lines : ReadPlainRow(line)
  \/ EndOfInput

Spec == Init /\ [][Next]_vars

\* The output stream goes bad (the device is full, the file is gone): the
\* code does not look at the stream's state, and the loop goes on.
WriteFails ==
  /\ pc = "loop"
  /\ io_error = "none"
  /\ io_error' = "write"
  /\ UNCHANGED <<config, replacement_rules, scan, pc, state, current_table, columns,
                 out_lines, trace, ret>>
  /\ UNCHANGED rule_vars

\* std::getline fails on a read error (the input is a directory, the device
\* fails): the loop ends as at the end of the input, and 0 is returned.
ReadFails ==
  /\ pc = "loop"
  /\ io_error = "none"
  /\ io_error' = "read"
  /\ pc' = "done"
  /\ ret' = 0
  /\ UNCHANGED <<config, replacement_rules, scan, state, current_table, columns,
                 out_lines, trace>>
  /\ UNCHANGED rule_vars

IoNext == Next \/ WriteFails \/ ReadFails

\* The transducer on streams that can fail.
SpecIo == Init /\ [][IoNext]_vars

(***************************************************************************)
(* The constructor step by step: load_rules parses the template of each   *)
(* configuration entry, one iteration of the scan loop at a time, and      *)
(* process_dump follows.                                                   *)
(***************************************************************************)
\* The function name create_func_rule takes from the text of a tag.
func_name(func_def) ==
  LET paren_start == Find(func_def, "(")
  IN  Filter(IF paren_start = 0 THEN func_def
             ELSE SubSeq(func_def, 1, paren_start - 1), {" ", "\t"})

\* The arguments create_func_rule takes from the text of a tag.
func_args(func_def) ==
  LET paren_start == Find(func_def, "(")
      paren_end == FindLast(func_def, ")")
  IN  smart_split_args(
        IF paren_start # 0 /\ paren_end # 0 /\ paren_end > paren_start
        THEN SubSeq(func_def, paren_start + 1, paren_end - 1)
        ELSE <<>>)

\* The arguments create_func_rule hands to parse_template, in call order.
recursive_args(func_def) ==
  LET name == func_name(func_def)
      args == func_args(func_def)
  IN  IF name = NameREGEX /\ Len(args) >= 2 THEN <<args[2]>>
      ELSE IF name = NameIF /\ Len(args) = 5 THEN <<args[1], args[4], args[5]>>
      ELSE <<>>

\* The RegexRule constructor raises once the replacement has been parsed.
constructor_raises(func_def) ==
  LET name == func_name(func_def)
      args == func_args(func_def)
  IN  /\ name = NameREGEX
      /\ Len(args) >= 2
      /\ RegexRule(args[1], NoneRule) = Thrown

\* A parse_template call in progress: its template, the scan index i
\* (1-based) and the length of the template whose tag it serves (one more
\* than its own length for a template of the configuration).
Frame(raw, within) ==
  [raw |-> raw, i |-> 1, within |-> within, raises |-> FALSE]

\* The point after the nested calls where a constructor raises.
Raise == [raw |-> <<>>, i |-> 1, within |-> 1, raises |-> TRUE]

\* i++
scan_advance(i) == i + 1

\* One iteration of while (i < len) at index i (1-based) of a template: an
\* unclosed tag ends the call, a closed tag starts the parse_template calls
\* create_func_rule makes and moves i behind the tag, any other character
\* moves i by one.
scan_iteration(raw, i) ==
  IF i + 1 <= Len(raw) /\ raw[i] = "{" /\ raw[i + 1] = "{"
  THEN LET start_content == i + 2
           j == find_close(raw, start_content, 2)
       IN  IF j = 0
           THEN [kind |-> "break", next |-> i, inner |-> <<>>, raises |-> FALSE]
           ELSE LET content == SubSeq(raw, start_content, j - 2)
                IN  [kind |-> "tag", next |-> j + 1,
                     inner |-> recursive_args(content),
                     raises |-> constructor_raises(content)]
  ELSE [kind |-> "char", next |-> scan_advance(i), inner |-> <<>>,
        raises |-> FALSE]

\* The templates of the configuration entries, in file order.
templates_of(entries) == [n \in 1..Len(entries) |-> entries[n].template]

\* The texts parse_template is entered with while a template is parsed, and
\* whether the parse raises: the scan is followed from index i, the calls a
\* closed tag makes are followed in call order, and nothing is entered
\* after a constructor has raised.
RECURSIVE entered(_), entered_from(_, _), entered_args(_, _)
entered_from(raw, i) ==
  IF i > Len(raw) THEN [texts |-> {}, thrown |-> FALSE]
  ELSE LET o == scan_iteration(raw, i)
       IN  IF o.kind = "break" THEN [texts |-> {}, thrown |-> FALSE]
           ELSE IF o.kind = "char" THEN entered_from(raw, o.next)
           ELSE LET a == entered_args(o.inner, 1)
                IN  IF a.thrown \/ o.raises
                    THEN [texts |-> a.texts, thrown |-> TRUE]
                    ELSE LET rest == entered_from(raw, o.next)
                         IN  [texts |-> a.texts \cup rest.texts,
                              thrown |-> rest.thrown]

entered_args(inner, n) ==
  IF n > Len(inner) THEN [texts |-> {}, thrown |-> FALSE]
  ELSE LET h == entered(inner[n])
       IN  IF h.thrown THEN h
           ELSE LET t == entered_args(inner, n + 1)
                IN  [texts |-> h.texts \cup t.texts, thrown |-> t.thrown]

entered(raw) ==
  LET r == entered_from(raw, 1)
  IN  [texts |-> {raw} \cup r.texts, thrown |-> r.thrown]

\* Every text parse_template is entered with for a template.
called_on(raw) == entered(raw).texts

\* A template whose tag is not closed, and one whose REGEX tag holds a
\* replacement template with a tag of its own.
TplUnclosed == <<"x">> \o <<"{", "{">> \o Call(NameNONE, <<>>)

TplRegexNested ==
  Tag(Call(NameREGEX, <<<<"1">>, TplHashS>>))

\* The configurations the program is run on from its constructor.
RunConfigs ==
  Configs \cup { <<Entry(TableT, ColA, TplUnclosed)>>,
                 <<Entry(TableT, ColA, TplRegexNested)>> }

ScanTexts ==
  UNION {called_on(c[n].template) : <<c, n>> \in
           {<<c, n>> \in RunConfigs \X (1..3) : n <= Len(c)}}

\* The iterations of the scan on the texts the configurations lead to,
\* evaluated once.
ScanTable ==
  [t \in ScanTexts |-> [i \in 1..Len(t) |-> scan_iteration(t, i)]]

\* The trees parse_template returns for the templates of the
\* configurations, evaluated once.
ParsedTemplates ==
  {<<c[n].template, parse_template(c[n].template)>> : <<c, n>> \in
     {<<c, n>> \in RunConfigs \X (1..3) : n <= Len(c)}}

\* rules[table_name][col] = rule
store_rule(rules, table_name, col, rule) ==
  [t \in (DOMAIN rules) \cup {table_name} |->
     LET old == IF t \in DOMAIN rules THEN DOMAIN rules[t] ELSE {}
     IN  [c \in (IF t = table_name THEN old \cup {col} ELSE old) |->
            IF t = table_name /\ c = col THEN rule ELSE rules[t][c]]]

\* load_rules calls parse_template on the template of the next entry.
LoadEntry ==
  /\ pc = "load"
  /\ scan.stack = <<>>
  /\ scan.todo # <<>>
  /\ scan' = [scan EXCEPT
                !.todo = Tail(scan.todo),
                !.stack = <<Frame(Head(scan.todo), Len(Head(scan.todo)) + 1)>>]
  /\ UNCHANGED <<config, replacement_rules, pc, state, current_table, columns,
                 out_lines, trace, ret, io_error>>
  /\ UNCHANGED rule_vars

\* The scan after the innermost parse_template call has returned: the tree
\* of a template of the configuration is stored in rules under the table
\* and column of its entry.
returned(f, rest) ==
  IF rest # <<>> THEN [scan EXCEPT !.stack = rest]
  ELSE LET e == config[Len(config) - Len(scan.todo)]
           made == (CHOOSE p \in ParsedTemplates : p[1] = f.raw)[2]
       IN  [scan EXCEPT !.stack = rest,
                        !.rules = store_rule(scan.rules, e.table, e.col,
                                             made.rule)]

\* A scan that stays on a character that begins no tag.
ScanStep_stalled ==
  /\ pc = "load"
  /\ scan.stack # <<>>
  /\ ~Head(scan.stack).raises
  /\ LET f == Head(scan.stack)
         rest == Tail(scan.stack)
         len == Len(f.raw)
     IN  IF f.i > len
         THEN scan' = returned(f, rest)
         ELSE LET o == ScanTable[f.raw][f.i]
                  calls == [n \in 1..Len(o.inner) |-> Frame(o.inner[n], len)]
                  after == IF o.raises THEN <<Raise>> ELSE <<>>
              IN  IF o.kind = "break"
                  THEN scan' = returned(f, rest)
                  ELSE IF o.kind = "char"
                  THEN scan' = scan
                  ELSE scan' = [scan EXCEPT !.stack =
                                  calls \o after
                                    \o <<[f EXCEPT !.i = o.next]>> \o rest]
  /\ UNCHANGED <<config, replacement_rules, pc, state, current_table, columns,
                 out_lines, trace, ret, io_error>>
  /\ UNCHANGED rule_vars

\* One iteration of the scan loop in the innermost parse_template call, or
\* its return at the end of the template.
ScanStep ==
  /\ pc = "load"
  /\ scan.stack # <<>>
  /\ ~Head(scan.stack).raises
  /\ LET f == Head(scan.stack)
         rest == Tail(scan.stack)
         len == Len(f.raw)
     IN  IF f.i > len
         THEN scan' = returned(f, rest)
         ELSE LET o == ScanTable[f.raw][f.i]
                  calls == [n \in 1..Len(o.inner) |-> Frame(o.inner[n], len)]
                  after == IF o.raises THEN <<Raise>> ELSE <<>>
              IN  IF o.kind = "break"
                  THEN scan' = returned(f, rest)
                  ELSE scan' = [scan EXCEPT !.stack =
                                  calls \o after
                                    \o <<[f EXCEPT !.i = o.next]>> \o rest]
  /\ UNCHANGED <<config, replacement_rules, pc, state, current_table, columns,
                 out_lines, trace, ret, io_error>>
  /\ UNCHANGED rule_vars

\* The exception leaves every call in progress and load_rules; the
\* constructor catches it, replacement_rules_ is not assigned, and
\* process_dump is called.
LoadRaise ==
  /\ pc = "load"
  /\ scan.stack # <<>>
  /\ Head(scan.stack).raises
  /\ scan' = Loaded
  /\ pc' = "open"
  /\ UNCHANGED <<config, replacement_rules, state, current_table, columns,
                 out_lines, trace, ret, io_error>>
  /\ UNCHANGED rule_vars

\* replacement_rules_ = load_rules(config_): load_rules returns its rules,
\* the catalog is assigned and the constructor is done; process_dump is
\* called.
LoadDone ==
  /\ pc = "load"
  /\ scan.stack = <<>>
  /\ scan.todo = <<>>
  /\ replacement_rules' = scan.rules
  /\ scan' = Loaded
  /\ pc' = "open"
  /\ UNCHANGED <<config, state, current_table, columns,
                 out_lines, trace, ret, io_error>>
  /\ UNCHANGED rule_vars

\* The program from the call of the constructor.
RunInit ==
  /\ config \in RunConfigs
  /\ replacement_rules = <<>>
  /\ pc = "load"
  /\ state = "SearchingForCopy"
  /\ current_table = <<>>
  /\ columns = <<>>
  /\ out_lines = <<>>
  /\ trace = <<>>
  /\ ret = -1
  /\ io_error = "none"
  /\ scan = [todo |-> templates_of(config), stack |-> <<>>, rules |-> <<>>]
  /\ RuleIdle

\* The steps of the constructor.
Load == LoadEntry \/ ScanStep \/ LoadRaise \/ LoadDone

RunNext == Load \/ Next

\* One thread runs the program: the constructor takes its next step whenever
\* it has one, process_dump tests its streams once it is called, and the
\* input, being finite, comes to its end.
SpecRun ==
  /\ RunInit
  /\ [][RunNext]_vars
  /\ WF_vars(Load)
  /\ WF_vars(OpenFail \/ OpenOk)
  /\ WF_vars(EndOfInput)

(***************************************************************************)
(* The rule engine on its own: RuleFactory and IRule::apply called         *)
(* directly, as DataProcessor calls them.                                  *)
(***************************************************************************)
DumpIdle ==
  /\ config = <<>>
  /\ replacement_rules = DataProcessor(<<>>)
  /\ pc = "open"
  /\ state = "SearchingForCopy"
  /\ current_table = <<>>
  /\ columns = <<>>
  /\ out_lines = <<>>
  /\ trace = <<>>
  /\ ret = -1
  /\ io_error = "none"
  /\ scan = Loaded

\* A function definition as it is written in a tag: the bare name for no
\* argument, else the name and the arguments in parentheses.
FuncDef(name, args) == IF args = <<>> THEN name ELSE Call(name, args)

ArgTexts == {<<"1">>, <<"[">>}

RECURSIVE ArgLists(_)
ArgLists(n) ==
  IF n = 0 THEN {<<>>}
  ELSE ArgLists(n - 1) \cup
         {Append(l, a) : l \in {m \in ArgLists(n - 1) : Len(m) = n - 1}, a \in ArgTexts}

AllArgs == ArgLists(MaxArgs)

NameFOO == <<"F", "O", "O">>
NameLower == <<"h", "a", "s", "h">>

Names ==
  {NameNONE, NameLITERAL, NameRAND, NameHASH, NameMATCHES, NameIF, NameREGEX,
   NamePICK, NameFOO, NameLower}

TplOpen == <<"{", "{">>

\* Templates whose first tag opener follows literal text and is never closed.
UnclosedTemplates ==
  {<<"A">> \o TplOpen \o <<"B">>,
   <<"A">> \o TplOpen,
   <<"A", "b">> \o TplOpen \o <<"B", "}">>,
   <<"A", " ">> \o TplOpen \o NameNONE}

\* Tags of a REGEX or MATCHES whose pattern is no regular expression.
BadPatternTemplates ==
  {TplBadRegex, TplBadMatches,
   <<"p">> \o TplBadRegex, TplBadMatches \o <<"q">>}

\* A REGEX tag whose replacement argument is itself a tag.
TplNested(pattern, func_def) == Tag(Call(NameREGEX, <<pattern, Tag(func_def)>>))

NestedPatterns == {<<"a">>, <<".">>}

NestedFuncDefs ==
  {Call(NameLITERAL, <<<<"b">>>>), NameNONE, Call(NameHASH, <<<<"s">>>>)}

NestedTemplates ==
  {TplNested(pattern, func_def) : pattern \in NestedPatterns, func_def \in NestedFuncDefs}

Templates ==
  UnclosedTemplates \cup BadPatternTemplates \cup NestedTemplates \cup
  {<<>>, <<"X">>, TplOpen \o <<"B">>, TplNone \o <<"A">> \o TplOpen \o <<"B">>,
   TplHashS, TplNone, TplUnknown, TplBadRand, TplMatchesA1, TplIfMatchesA1,
   <<"A">> \o TplNone \o <<"B">>,
   Tag(Call(NameREGEX, <<<<"1">>, TplHashS>>)),
   Tag(Call(NameREGEX, <<<<".">>, TplBadRegex>>))}

Values == {<<>>, <<"1">>, <<"v", "1">>, <<"a", "1">>}

Row1 == RowContext(<<ColA, ColB>>, <<<<"1">>, <<"x">>>>)
Row2 == RowContext(<<ColA, ColB>>, <<<<"2">>, <<"y">>>>)
Contexts == {Row1, Row2}

RuleInit == DumpIdle /\ RuleIdle

\* RuleFactory::parse_template(raw_template)
ParseTemplate(raw_template) ==
  /\ input' = Given("template", <<>>, <<>>, raw_template)
  /\ built' = parse_template(raw_template)
  /\ evaluated' = FALSE
  /\ value' = <<>>
  /\ context' = RowContext(<<>>, <<>>)
  /\ result' = <<>>
  /\ UNCHANGED hashed
  /\ UNCHANGED dump_vars

\* RuleFactory::create_func_rule(func_def)
CreateFuncRule(name, args) ==
  /\ input' = Given("call", name, args, FuncDef(name, args))
  /\ built' = create_func_rule(FuncDef(name, args))
  /\ evaluated' = FALSE
  /\ value' = <<>>
  /\ context' = RowContext(<<>>, <<>>)
  /\ result' = <<>>
  /\ UNCHANGED hashed
  /\ UNCHANGED dump_vars

\* rule->apply(original_value, context) on the rule built last.
Evaluate(original_value, ctx) ==
  /\ input.kind # "none"
  /\ built.rule.kind # "Throw"
  /\ result' \in apply(built.rule, original_value, ctx)
  /\ value' = original_value
  /\ context' = ctx
  /\ evaluated' = TRUE
  /\ UNCHANGED <<input, built, hashed>>
  /\ UNCHANGED dump_vars

\* Nothing was given to the factory yet.
Fresh == input.kind = "none"

\* The first call of the factory.
FirstParseTemplate(raw_template) == Fresh /\ ParseTemplate(raw_template)

FirstCreateFuncRule(name, args) == Fresh /\ CreateFuncRule(name, args)

ParseNext ==
  \/ \E raw_template \in Templates : FirstParseTemplate(raw_template)
  \/ \E name \in Names, args \in AllArgs : FirstCreateFuncRule(name, args)
  \/ \E original_value \in Values : Evaluate(original_value, Row1)

SpecParse == RuleInit /\ [][ParseNext]_vars

\* Hash nodes: one is built from a salt argument, and applied any number of
\* times to values in contexts; another may be built at any time.
SaltArgs == {<<"s">>, <<"t", "2">>}

\* The apply of the Hash node built last, remembered in hashed.
EvaluateHash(original_value, ctx) ==
  /\ input.kind = "call"
  /\ built.rule.kind = "Hash"
  /\ \E r \in apply(built.rule, original_value, ctx) :
       /\ result' = r
       /\ hashed' = hashed \cup {[salt |-> input.args[1], value |-> original_value,
                                  context |-> ctx, result |-> r]}
  /\ value' = original_value
  /\ context' = ctx
  /\ evaluated' = TRUE
  /\ UNCHANGED <<input, built>>
  /\ UNCHANGED dump_vars

HashValues == {<<"1">>, <<"v", "1">>}

HashNext ==
  \/ \E salt \in SaltArgs : CreateFuncRule(NameHASH, <<salt>>)
  \/ \E original_value \in HashValues, ctx \in Contexts :
       EvaluateHash(original_value, ctx)

SpecHash == RuleInit /\ [][HashNext]_vars

\* Conditional nodes built directly: the condition is the value itself.
OpLower == <<"i", "n">>
Ops == {OpEQ, OpNEQ, OpIN, OpLower}

TargetVals ==
  {<<"a", ",", " ", "b", " ", ",", "c">>, <<>>, <<"a", ",">>, <<",", "a">>,
   <<"a", ",", " ">>, <<" ">>, <<"b">>, <<"a", ",", ",", "b">>,
   <<"a", "b">>, <<"a", ",", "\t", "a", "b", "\t">>}

ActualVals == {<<"b">>, <<"a", "b">>, <<>>, <<"a">>, <<" ", "b">>, <<"c">>}

TextT == <<"T">>
TextF == <<"F">>

\* std::make_shared<ConditionalRule>(cond, op, val, t, f)
NewConditional(op, val) ==
  /\ Fresh
  /\ input' = Given("cond", op, <<val>>, <<>>)
  /\ built' = [rule |-> ConditionalRule(NoneRule, op, val, StaticTextRule(TextT),
                                        StaticTextRule(TextF)),
               log |-> 0]
  /\ evaluated' = FALSE
  /\ value' = <<>>
  /\ context' = RowContext(<<>>, <<>>)
  /\ result' = <<>>
  /\ UNCHANGED hashed
  /\ UNCHANGED dump_vars

CondNext ==
  \/ \E op \in Ops, val \in TargetVals : NewConditional(op, val)
  \/ \E original_value \in ActualVals : Evaluate(original_value, Row1)

SpecCond == RuleInit /\ [][CondNext]_vars

\* Conditional nodes built by the factory from IF definitions, and directly.
TplEchoT == TextT \o TplNone
TplEchoF == TextF \o TplNone

IfConds == {TplNone, TplMatchesA1, <<"1">>}
IfVals == {<<"1">>, <<"t", "r", "u", "e">>, <<"a", "1">>}
IfElses == {TplEchoF, TplHashS}

IfArgs ==
  {<<cond, op, val, TplEchoT, else>> :
     cond \in IfConds, op \in Ops, val \in IfVals, else \in IfElses}

IfValues == ActualVals \cup {<<"1">>, <<"a", "1">>}

IfNext ==
  \/ \E args \in IfArgs : FirstCreateFuncRule(NameIF, args)
  \/ \E op \in Ops, val \in TargetVals : NewConditional(op, val)
  \/ \E original_value \in IfValues, ctx \in Contexts : Evaluate(original_value, ctx)

SpecIf == RuleInit /\ [][IfNext]_vars

\* Row contexts looked up directly.
ColC == <<"c">>
LookupNames == {ColA, ColB, ColC}

RECURSIVE SeqsUpTo(_, _)
\* The sequences over S of length at most n.
SeqsUpTo(S, n) ==
  IF n = 0 THEN {<<>>}
  ELSE LET shorter == SeqsUpTo(S, n - 1)
       IN  shorter \cup {Append(q, x) : q \in {t \in shorter : Len(t) = n - 1}, x \in S}

MaxCols == 2

LookupHeaders == SeqsUpTo({ColA, ColB}, MaxCols)
LookupRows == SeqsUpTo({<<"1">>, <<"x">>, <<>>}, MaxCols)

\* ctx.get_column_value(col_name) on RowContext{headers, row_values}
Lookup(headers, row_values, col_name) ==
  /\ input' = Given("lookup", col_name, <<>>, <<>>)
  /\ context' = RowContext(headers, row_values)
  /\ result' = get_column_value(RowContext(headers, row_values), col_name)
  /\ evaluated' = TRUE
  /\ UNCHANGED <<built, value, hashed>>
  /\ UNCHANGED dump_vars

LookupNext ==
  \E headers \in LookupHeaders, row_values \in LookupRows, col_name \in LookupNames :
    Lookup(headers, row_values, col_name)

SpecLookup == RuleInit /\ [][LookupNext]_vars

\* Hash nodes built directly from a salt.
DigestSalts ==
  {<<0, 0>>, <<0, 115>>, <<0, 3646>>, <<0, 9999>>, <<0, 10000>>, <<1, 0>>,
   <<1, 34464>>, <<15258, 51712>>, <<32768, 0>>, <<65535, 65535>>}

DigestValues ==
  {<<>>, <<"0">>, <<"1">>, <<"v", "1">>, <<"a">>, <<"~">>, <<"\t">>, <<" ">>,
   <<"z", "z">>, <<"x">>, <<"A", "b">>, <<"h", "e", "l", "l", "o", " ", "w">>}

\* std::make_shared<HashRule>(salt)
NewHash(salt) ==
  /\ input' = Given("hash", <<>>, <<>>, <<>>)
  /\ built' = [rule |-> HashRule(salt), log |-> 0]
  /\ evaluated' = FALSE
  /\ value' = <<>>
  /\ context' = RowContext(<<>>, <<>>)
  /\ result' = <<>>
  /\ UNCHANGED hashed
  /\ UNCHANGED dump_vars

DigestNext ==
  \/ \E salt \in DigestSalts : NewHash(salt)
  \/ \E original_value \in DigestValues : Evaluate(original_value, Row1)

SpecDigest == RuleInit /\ [][DigestNext]_vars

\* RAND tags given to the parser.
RandArgs == {<<"-", "1">>, <<"0">>, <<"1">>, <<"2">>, <<"3">>}

TplRand(min, max) == Tag(Call(NameRAND, <<min, max>>))

RandNext ==
  \/ \E min \in RandArgs, max \in RandArgs : FirstParseTemplate(TplRand(min, max))
  \/ \E original_value \in {<<>>, <<"v">>} : Evaluate(original_value, Row1)

SpecRand == RuleInit /\ [][RandNext]_vars

(***************************************************************************)
(* Claims about the transducer, checked under Spec.                        *)
(***************************************************************************)
\* The k-th line read was a data row: read in ReadingData and no end marker.
IsDataRow(k) == trace[k].state = "ReadingData" /\ ~LineEnd[trace[k].line]

\* The index of the block-start line that opened the block of data row k.
BlockStart(k) ==
  CHOOSE j \in 1..(k - 1) :
    /\ trace[j].state = "SearchingForCopy"
    /\ LineCopy[trace[j].line].matched
    /\ \A m \in (j + 1)..(k - 1) : trace[m].state = "ReadingData"

BlockTable(k) == LineCopy[trace[BlockStart(k)].line].table

BlockColumns(k) ==
  LET m == LineCopy[trace[BlockStart(k)].line]
  IN  IF m.has_cols THEN parse_copy_columns(m.cols) ELSE <<>>

\* The cells of a line: the texts between its tabs (n tabs, n + 1 cells).
RECURSIVE CellsFrom(_, _)
CellsFrom(line, cur) ==
  IF line = <<>> THEN <<cur>>
  ELSE IF Head(line) = "\t" THEN <<cur>> \o CellsFrom(Tail(line), <<>>)
       ELSE CellsFrom(Tail(line), Append(cur, Head(line)))

Cells(line) == CellsFrom(line, <<>>)

\* C1: once the files are open, the output holds exactly one line per input
\* line read, in input order: output line k is input line k itself or, for a
\* row rewritten by rules, a line process_row makes of input line k.
C1_OneLinePerInput ==
  pc # "open" =>
    /\ Len(out_lines) = Len(trace)
    /\ \A k \in 1..Len(trace) :
         \/ out_lines[k] = trace[k].line
         \/ /\ IsDataRow(k)
            /\ BlockTable(k) \in DOMAIN replacement_rules
            /\ \E r \in process_row(trace[k].line, BlockColumns(k),
                                    replacement_rules[BlockTable(k)]) :
                 out_lines[k] = r.processed_line

\* A run that ended with a block start, a rewritten row and an end marker.
W1_RewrittenRun ==
  /\ pc = "done"
  /\ ret = 0
  /\ Len(trace) >= 3
  /\ \E k \in 1..Len(trace) : trace[k].kind = "ruled" /\ out_lines[k] # trace[k].line
  /\ \E k \in 1..Len(trace) : trace[k].kind = "end"

\* C2: a data row of a block whose table has no catalog entry, or whose
\* block-start line gave no column, is written identical to the input line.
C2_PassThrough ==
  \A k \in 1..Len(trace) :
    (/\ IsDataRow(k)
     /\ \/ BlockTable(k) \notin DOMAIN replacement_rules
        \/ BlockColumns(k) = <<>>)
    => (k <= Len(out_lines) /\ out_lines[k] = trace[k].line)

\* A row with a tab was read in a block of a table that has rules but whose
\* block-start line gave no column list, and was written.
W2_RuledTableNoColumns ==
  \E k \in 1..Len(trace) :
    /\ IsDataRow(k)
    /\ BlockTable(k) \in DOMAIN replacement_rules
    /\ BlockColumns(k) = <<>>
    /\ Len(Cells(trace[k].line)) > 1
    /\ k <= Len(out_lines)

\* C3 (as claimed): for a data row of a table with rules and a column list,
\* the output line has as many cells as the input line, and every cell whose
\* index has no rule equals the input cell.
X3_CellsPreserved ==
  \A k \in 1..Len(trace) :
    (/\ IsDataRow(k)
     /\ BlockTable(k) \in DOMAIN replacement_rules
     /\ BlockColumns(k) # <<>>)
    => LET cin == Cells(trace[k].line)
           cout == Cells(out_lines[k])
           cols == BlockColumns(k)
           table_rules == replacement_rules[BlockTable(k)]
       IN  /\ Len(cout) = Len(cin)
           /\ \A i \in 1..Len(cin) :
                (i > Len(cols) \/ cols[i] \notin DOMAIN table_rules)
                => cout[i] = cin[i]

\* A node that looks column col up: a Matches on col, or a Conditional whose
\* condition does, or a Composite holding one.
RECURSIVE LooksUp(_, _)
LooksUp(rule, col) ==
  CASE rule.kind = "Matches" -> rule.col = col
    [] rule.kind = "Conditional" -> LooksUp(rule.cond, col)
    [] rule.kind = "Composite" ->
         \E n \in 1..Len(rule.subs) : LooksUp(rule.subs[n], col)
    [] OTHER -> FALSE

\* The rules a second run may have configured on the earlier column.
OtherRules ==
  <<parse_template(<<"X">>).rule, parse_template(TplHashS).rule,
    parse_template(TplNone).rule, parse_template(<<"1">>).rule>>

\* The catalog of the table with the rule of column col replaced, or removed.
WithRule(table_rules, col, rule) ==
  [c \in (DOMAIN table_rules) \cup {col} |-> IF c = col THEN rule ELSE table_rules[c]]

WithoutRule(table_rules, col) ==
  [c \in (DOMAIN table_rules) \ {col} |-> table_rules[c]]

\* C4: row isolation.  For a rewritten row, a cell i whose rule looks up an
\* earlier column j comes out the same in every run that differs only in the
\* rule configured on column j.
C4_RowIsolation ==
  \A k \in 1..Len(trace) :
    trace[k].kind = "ruled" =>
      LET cols == trace[k].columns
          table_rules == replacement_rules[trace[k].table]
          same(other_rules, i) ==
            \A r \in process_row(trace[k].line, cols, other_rules) :
              r.working[i] = trace[k].working[i]
      IN  \A i \in 1..Len(trace[k].working) : \A j \in 1..(i - 1) :
            (/\ i <= Len(cols)
             /\ cols[i] \in DOMAIN table_rules
             /\ LooksUp(table_rules[cols[i]], cols[j]))
            => /\ same(WithoutRule(table_rules, cols[j]), i)
               /\ \A n \in 1..Len(OtherRules) :
                    same(WithRule(table_rules, cols[j], OtherRules[n]), i)

\* A row whose first cell was rewritten and whose second cell's rule looked
\* the first column up and found its original value matching.
W4_LookupAfterRewrite ==
  \E k \in 1..Len(trace) :
    /\ trace[k].kind = "ruled"
    /\ trace[k].applied = {1, 2}
    /\ LooksUp(replacement_rules[trace[k].table][trace[k].columns[2]],
               trace[k].columns[1])
    /\ trace[k].working[1] # Cells(trace[k].line)[1]
    /\ trace[k].working[2] \in {<<"T">>, <<"t", "r", "u", "e">>}

\* C7 (as claimed): whatever template errors the configuration holds, the
\* catalog has a rule for every (table, column) of the configuration.
X7_CatalogComplete ==
  \A n \in 1..Len(config) :
    /\ config[n].table \in DOMAIN replacement_rules
    /\ config[n].col \in DOMAIN replacement_rules[config[n].table]

(***************************************************************************)
(* Claims about the factory, checked under SpecParse.                      *)
(***************************************************************************)
\* C5 (as claimed): a template of literal text followed by a tag opener that
\* is never closed parses to a tree that evaluates, for every value, to the
\* template text itself.
X5_UnclosedTagKept ==
  (input.kind = "template" /\ input.text \in UnclosedTemplates)
  => /\ built.rule.kind # "Throw"
     /\ evaluated => result = input.text

\* C6 (as claimed): parse_template never raises, and a tag that is only a
\* REGEX or MATCHES with a pattern that is no regular expression gives a
\* diagnostic and a tree that evaluates to the empty string.
X6_ParseNeverRaises ==
  input.kind = "template"
  => /\ built.rule.kind # "Throw"
     /\ input.text \in {TplBadRegex, TplBadMatches}
        => /\ built.log >= 1
           /\ evaluated => result = <<>>

KnownNames ==
  {NameNONE, NameLITERAL, NameRAND, NamePICK, NameHASH, NameREGEX, NameMATCHES,
   NameIF}

\* The argument counts the verbs take.
ArityOk(name, n) ==
  CASE name = NameNONE -> n = 0
    [] name = NameLITERAL -> n = 1
    [] name = NameRAND -> n = 2
    [] name = NameHASH -> n = 1
    [] name = NameMATCHES -> n = 2
    [] name = NameIF -> n = 5
    [] name = NameREGEX -> n >= 2
    [] name = NamePICK -> TRUE
    [] OTHER -> FALSE

\* C8 (as claimed): create_func_rule never raises, and for an unknown verb or
\* a known verb with a wrong argument count it returns an empty Literal.
X8_EmptyLiteralDefault ==
  input.kind = "call"
  => /\ built.rule.kind # "Throw"
     /\ (input.name \notin KnownNames \/ ~ArityOk(input.name, Len(input.args)))
        => /\ built.rule.kind = "Literal"
           /\ built.rule.text = <<>>

(***************************************************************************)
(* Claims about Hash nodes, checked under SpecHash.                        *)
(***************************************************************************)
\* C9: determinism of Hash.  Any two evaluations of Hash nodes built from the
\* same salt argument on the same value gave the same string, whatever the
\* contexts, the evaluations in between and the node instances were.
C9_HashDeterministic ==
  \A h1 \in hashed : \A h2 \in hashed :
    (h1.salt = h2.salt /\ h1.value = h2.value) => h1.result = h2.result

\* One value was hashed with one salt argument in two row contexts, and with
\* another salt argument, which gave another string.
W9_HashedTwice ==
  \E h1 \in hashed : \E h2 \in hashed : \E h3 \in hashed :
    /\ h1.salt = h2.salt /\ h1.value = h2.value
    /\ h1.context # h2.context
    /\ h3.value = h1.value /\ h3.salt # h1.salt
    /\ h3.result # h1.result

(***************************************************************************)
(* Claims about Conditional nodes, checked under SpecCond.                 *)
(***************************************************************************)
Blank == {" ", "\t"}

\* v is e without its leading and trailing spaces and tabs.
TrimsTo(e, v) ==
  IF \A k \in 1..Len(e) : e[k] \in Blank THEN v = <<>>
  ELSE \E a \in 1..Len(e) : \E b \in a..Len(e) :
         /\ e[a] \notin Blank /\ e[b] \notin Blank
         /\ \A k \in 1..(a - 1) : e[k] \in Blank
         /\ \A k \in (b + 1)..Len(e) : e[k] \in Blank
         /\ v = SubSeq(e, a, b)

\* t[i..j] is an entry of the comma-separated list t: it starts at the start
\* of t or after a comma, holds no comma, and ends before a comma or at the
\* end of t.  A list with n commas has n + 1 entries; an entry may be empty,
\* also the last one and the only one of the empty list.
IsEntry(t, i, j) ==
  /\ i = 1 \/ t[i - 1] = ","
  /\ \A m \in i..j : t[m] # ","
  /\ j = Len(t) \/ t[j + 1] = ","

\* C10: a Conditional with operator IN gives its true branch if and only if
\* some entry of the comma-separated comparison value, with its leading and
\* trailing spaces and tabs trimmed, equals the actual value of the condition.
X10_InOperator ==
  (input.kind = "cond" /\ input.name = OpIN /\ evaluated)
  => LET t == input.args[1]
     IN  (result = TextT)
         <=> \E i \in 1..(Len(t) + 1) : \E j \in (i - 1)..Len(t) :
               IsEntry(t, i, j) /\ TrimsTo(SubSeq(t, i, j), value)

(***************************************************************************)
(* Nested tags, checked under SpecParse.                                   *)
(***************************************************************************)
\* C11: nesting.  A REGEX tag whose replacement argument is itself a tag
\* parses to a single Regex node with the pattern given, whose replacement
\* subtree is the parse of the inner tag; with the inner tag LITERAL(b) that
\* subtree evaluates to "b" for every value, and the tree evaluates to the
\* value with the pattern's matches replaced by the subtree's result.
C11_NestedTag ==
  \A pattern \in NestedPatterns : \A func_def \in NestedFuncDefs :
    (input.kind = "template" /\ input.text = TplNested(pattern, func_def))
    => /\ built.rule.kind = "Composite"
       /\ Len(built.rule.subs) = 1
       /\ built.rule.subs[1].kind = "Regex"
       /\ built.rule.subs[1].pattern = pattern
       /\ built.rule.subs[1].replacement = parse_template(Tag(func_def)).rule
       /\ func_def = Call(NameLITERAL, <<<<"b">>>>)
          => \A v \in Values :
               apply(built.rule.subs[1].replacement, v, Row1) = {<<"b">>}
       /\ evaluated
          => \E fmt \in apply(built.rule.subs[1].replacement, value, Row1) :
               result = regex_replace(value, pattern, fmt)

\* {{REGEX(a,{{LITERAL(b)}})}} was parsed and evaluated on "a1", giving "b1".
W11_NestedEvaluated ==
  /\ input.kind = "template"
  /\ input.text = TplNested(<<"a">>, Call(NameLITERAL, <<<<"b">>>>))
  /\ evaluated
  /\ value = <<"a", "1">>
  /\ result = <<"b", "1">>

(***************************************************************************)
(* The parser state of the transducer, checked under Spec.                 *)
(***************************************************************************)
\* C12: every line read in SearchingForCopy, matching the block-start
\* pattern or not, and every end marker read in ReadingData is written
\* unchanged.
C12_MarkersUnchanged ==
  \A k \in 1..Len(trace) :
    (\/ trace[k].state = "SearchingForCopy"
     \/ trace[k].state = "ReadingData" /\ LineEnd[trace[k].line])
    => (k <= Len(out_lines) /\ out_lines[k] = trace[k].line)

\* A run over a block-start line with a column list, a row that was
\* rewritten, and the end marker.
W12_BlockAroundRewrittenRow ==
  /\ Len(trace) = 3
  /\ trace[1].state = "SearchingForCopy" /\ LineCopy[trace[1].line].has_cols
  /\ trace[2].kind = "ruled" /\ out_lines[2] # trace[2].line
  /\ trace[3].state = "ReadingData" /\ LineEnd[trace[3].line]

\* The parser state after the k-th line was processed.
StateAfter(k) == IF k < Len(trace) THEN trace[k + 1].state ELSE state

\* C14: the parser state is SearchingForCopy or ReadingData and starts as
\* SearchingForCopy; a line read in SearchingForCopy leads to ReadingData
\* exactly when it matches the block-start pattern, a line read in
\* ReadingData leads to SearchingForCopy exactly when it is an end marker.
C14_StateMachine ==
  /\ state \in {"SearchingForCopy", "ReadingData"}
  /\ trace = <<>> => state = "SearchingForCopy"
  /\ \A k \in 1..Len(trace) :
       /\ k = 1 => trace[k].state = "SearchingForCopy"
       /\ trace[k].state = "SearchingForCopy"
          => StateAfter(k) = IF LineCopy[trace[k].line].matched
                             THEN "ReadingData" ELSE "SearchingForCopy"
       /\ trace[k].state = "ReadingData"
          => StateAfter(k) = IF LineEnd[trace[k].line]
                             THEN "SearchingForCopy" ELSE "ReadingData"

\* A block was opened, a block-start line read inside it was taken for a data
\* row, and the end marker closed the block.
W14_CopyLineAsRow ==
  /\ Len(trace) = 3
  /\ trace[1].kind = "copy"
  /\ trace[2].state = "ReadingData" /\ LineCopy[trace[2].line].matched
  /\ trace[2].kind \in {"ruled", "plain"}
  /\ trace[3].kind = "end"
  /\ state = "SearchingForCopy"

\* The last line read that opened a block, among the first k lines.
LastStart(k) ==
  CHOOSE j \in 1..k :
    /\ trace[j].state = "SearchingForCopy"
    /\ LineCopy[trace[j].line].matched
    /\ \A m \in (j + 1)..k :
         ~(trace[m].state = "SearchingForCopy" /\ LineCopy[trace[m].line].matched)

\* C16: in ReadingData the table name and the column list are those of the
\* block-start line that opened the current block, and every data row was
\* looked up with the table name and column list of the block-start line of
\* its own block.
C16_BlockOwnsTableAndColumns ==
  /\ state = "ReadingData"
     => LET m == LineCopy[trace[LastStart(Len(trace))].line]
        IN  /\ current_table = m.table
            /\ columns = IF m.has_cols THEN parse_copy_columns(m.cols) ELSE <<>>
  /\ \A k \in 1..Len(trace) :
       IsDataRow(k)
       => /\ trace[k].table = BlockTable(k)
          /\ trace[k].columns = BlockColumns(k)
          /\ trace[k].kind = "ruled"
             <=> (BlockTable(k) \in DOMAIN replacement_rules /\ BlockColumns(k) # <<>>)

\* A block with a column list was closed and a block of another table
\* without a column list was opened: the column list is empty.
W16_SecondBlockNoColumns ==
  /\ Len(trace) = 3
  /\ trace[1].kind = "copy" /\ trace[1].columns # <<>>
  /\ trace[2].kind = "end"
  /\ trace[3].kind = "copy" /\ trace[3].table # trace[1].table
  /\ state = "ReadingData"
  /\ columns = <<>>
  /\ current_table = trace[3].table

(***************************************************************************)
(* Stream failures, checked under SpecIo.                                  *)
(***************************************************************************)
\* C13 (as claimed): a run that met a read or write failure returns non-zero,
\* and a run returns 0 only when every line read was written.
X13_FailureReported ==
  pc = "done"
  => /\ io_error # "none" => ret # 0
     /\ ret = 0 => Len(out_lines) = Len(trace)

(***************************************************************************)
(* Rule application by cell index, checked under Spec.                     *)
(***************************************************************************)
\* C15 (as claimed): for a data row of a table with rules and a column list,
\* a rule was evaluated for exactly the cell indices of the row that have a
\* column name with a catalog entry (an empty cell included), the cell
\* written there is a result of that rule on the input cell, and every other
\* cell is written as it was read.
X15_RuleByIndex ==
  \A k \in 1..Len(trace) :
    (/\ IsDataRow(k)
     /\ io_error = "none"
     /\ BlockTable(k) \in DOMAIN replacement_rules
     /\ BlockColumns(k) # <<>>)
    => LET cin == Cells(trace[k].line)
           cout == Cells(out_lines[k])
           cols == BlockColumns(k)
           table_rules == replacement_rules[BlockTable(k)]
           ruled == {i \in 1..Len(cin) :
                       i <= Len(cols) /\ cols[i] \in DOMAIN table_rules}
       IN  /\ trace[k].applied = ruled
           /\ Len(cout) = Len(cin)
           /\ \A i \in 1..Len(cin) :
                IF i \in ruled
                THEN cout[i] \in apply(table_rules[cols[i]], cin[i],
                                       RowContext(cols, cin))
                ELSE cout[i] = cin[i]

(***************************************************************************)
(* Conditional nodes, checked under SpecIf.                                *)
(***************************************************************************)
\* actual is an entry of the comma-separated list t, trimmed.
IsMember(t, actual) ==
  \E i \in 1..(Len(t) + 1) : \E j \in (i - 1)..Len(t) :
    IsEntry(t, i, j) /\ TrimsTo(SubSeq(t, i, j), actual)

\* C17: a Conditional evaluates its condition subtree on the value and the
\* context, and returns what one branch gives on the same value and context:
\* the true branch if and only if the operator is EQ and the actual value
\* equals the comparison value, or NEQ and they differ, or IN and the actual
\* value is a member of the list; else the false branch.
X17_ConditionalBranch ==
  (input.kind # "none" /\ built.rule.kind = "Conditional" /\ evaluated)
  => LET r == built.rule
     IN  \E actual \in apply(r.cond, value, context) :
           LET match == \/ r.op = OpEQ /\ actual = r.val
                        \/ r.op = OpNEQ /\ actual # r.val
                        \/ r.op = OpIN /\ IsMember(r.val, actual)
           IN  result \in apply(IF match THEN r.t ELSE r.f, value, context)

(***************************************************************************)
(* Row context lookups, checked under SpecLookup.                          *)
(***************************************************************************)
\* C18: a lookup by column name gives the cell at the first index the name
\* has in the column list, and the empty string when the name is not in the
\* list or the row has no cell at that index.
C18_LookupByName ==
  input.kind = "lookup"
  => LET h == context.headers
         r == context.row_values
         hits == {i \in 1..Len(h) : h[i] = input.name}
     IN  IF hits = {} THEN result = <<>>
         ELSE LET i == CHOOSE x \in hits : \A y \in hits : x <= y
              IN  IF i <= Len(r) THEN result = r[i] ELSE result = <<>>

\* Column b of (a, b) was looked up in a row of one non-empty cell: the
\* result is the empty string.
W18_ShortRow ==
  /\ input.kind = "lookup"
  /\ input.name = ColB
  /\ context.headers = <<ColA, ColB>>
  /\ context.row_values = <<<<"1">>>>
  /\ result = <<>>

(***************************************************************************)
(* The digest of Hash, bit by bit, checked under SpecDigest.               *)
(***************************************************************************)
\* A 32-bit word is the sequence of its bits, the lowest first.
RECURSIVE BitsOf(_, _)
BitsOf(n, width) ==
  IF width = 0 THEN <<>> ELSE <<n % 2>> \o BitsOf(n \div 2, width - 1)

RECURSIVE Zeros(_)
Zeros(k) == IF k = 0 THEN <<>> ELSE <<0>> \o Zeros(k - 1)

\* a shifted left by k bits, modulo 2^32.
ShiftLeft(a, k) == Zeros(k) \o SubSeq(a, 1, 32 - k)

RECURSIVE BitAddFrom(_, _, _, _)
BitAddFrom(a, b, i, carry) ==
  IF i > 32 THEN <<>>
  ELSE LET t == a[i] + b[i] + carry
       IN  <<t % 2>> \o BitAddFrom(a, b, i + 1, t \div 2)

\* a + b modulo 2^32.
BitAdd(a, b) == BitAddFrom(a, b, 1, 0)

\* a * 16777619 modulo 2^32: 16777619 = 2^24 + 2^8 + 2^7 + 2^4 + 2^1 + 2^0.
TimesFnvPrime(a) ==
  BitAdd(ShiftLeft(a, 24),
         BitAdd(ShiftLeft(a, 8),
                BitAdd(ShiftLeft(a, 7),
                       BitAdd(ShiftLeft(a, 4), BitAdd(ShiftLeft(a, 1), a)))))

\* a with its low byte xored with the byte.
BitXorByte(a, byte) ==
  LET b == BitsOf(byte, 8)
  IN  [i \in 1..8 |-> (a[i] + b[i]) % 2] \o SubSeq(a, 9, 32)

\* 2166136261 = 0x811C9DC5, hexadecimal digit by digit, the lowest first.
FnvOffsetBits ==
  BitsOf(5, 4) \o BitsOf(12, 4) \o BitsOf(13, 4) \o BitsOf(9, 4)
    \o BitsOf(12, 4) \o BitsOf(1, 4) \o BitsOf(1, 4) \o BitsOf(8, 4)

RECURSIVE Fnv1a(_, _)
\* The FNV-1a accumulation of the characters of str onto h.
Fnv1a(h, str) ==
  IF str = <<>> THEN h
  ELSE LET next == TimesFnvPrime(BitXorByte(h, Ord(Head(str))))
       IN  IF Len(next) = 32 THEN Fnv1a(next, Tail(str)) ELSE next

RECURSIVE BitsValue(_)
\* The number a sequence of at most 31 bits stands for.
BitsValue(bits) ==
  IF bits = <<>> THEN 0 ELSE Head(bits) + 2 * BitsValue(Tail(bits))

RECURSIVE Decimal(_)
\* The decimal digits of a natural number.
Decimal(n) ==
  IF n < 10 THEN <<Digits[n + 1]>>
  ELSE Decimal(n \div 10) \o <<Digits[(n % 10) + 1]>>

\* The decimal digits of hi * 65536 + lo, computed in two parts:
\* hi * 65536 + lo = 10000 * (6 * hi) + (5536 * hi + lo).
SaltDecimal(salt) ==
  LET rest == 5536 * salt[1] + salt[2]
      top == 6 * salt[1] + (rest \div 10000)
      low == rest % 10000
  IN  IF top = 0 THEN Decimal(low)
      ELSE Decimal(top) \o SubSeq(Decimal(10000 + low), 2, 5)

\* C19: the result of a Hash node is the decimal rendering of h AND
\* 0x7FFFFFFF, h being the 32-bit FNV-1a accumulation, from the offset
\* 2166136261 with the prime 16777619, over the decimal digits of the salt
\* and then the characters of the value: a number in 0..2^31-1, never with a
\* sign.
C19_HashIsMaskedFnv1a ==
  (input.kind = "hash" /\ evaluated)
  => LET h == Fnv1a(Fnv1a(FnvOffsetBits, SaltDecimal(built.rule.salt)), value)
     IN  /\ result = Decimal(BitsValue(SubSeq(h, 1, 31)))
         /\ \A k \in 1..Len(result) : IsDigit(result[k])

\* A Hash node with a salt above 2^31 was evaluated on a value whose
\* accumulation has its highest bit set, which the mask removes.
W19_MaskedTopBit ==
  /\ input.kind = "hash"
  /\ evaluated
  /\ built.rule.salt[1] >= 32768
  /\ value # <<>>
  /\ Fnv1a(Fnv1a(FnvOffsetBits, SaltDecimal(built.rule.salt)), value)[32] = 1

(***************************************************************************)
(* RandomInt nodes built by the parser, checked under SpecRand.            *)
(***************************************************************************)
\* The decimal rendering of an integer.
SignedDecimal(n) == IF n < 0 THEN <<"-">> \o Decimal(0 - n) ELSE Decimal(n)

\* C20 (as claimed): every RandomInt node the parser builds from a RAND tag
\* with two integer arguments has min <= max, and every evaluation of it
\* gives the decimal rendering of an integer from min to max.
X20_RandInRange ==
  (/\ input.kind = "template"
   /\ built.rule.kind = "Composite"
   /\ Len(built.rule.subs) = 1
   /\ built.rule.subs[1].kind = "RandomInt")
  => LET node == built.rule.subs[1]
     IN  /\ node.min <= node.max
         /\ evaluated
            => \E r \in node.min..node.max : result = SignedDecimal(r)

(***************************************************************************)
(* The argument splitter on argument texts, checked under SpecSplit.       *)
(***************************************************************************)
\* Longest argument text given to the splitter.
MaxText == 4

\* The characters of the argument texts: a letter, the comma, the four
\* nesting characters and a space.
SplitChars == {"a", ",", "(", ")", "{", "}", " "}

\* The argument texts: args_str as create_func_rule cuts it out of the tag.
SplitTexts == UNION {[1..n -> SplitChars] : n \in 0..MaxText}

\* smart_split_args(args_str) as create_func_rule calls it.
Split(s) ==
  /\ input' = Given("split", <<>>, smart_split_args(s), s)
  /\ UNCHANGED <<built, value, context, result, evaluated, hashed>>
  /\ UNCHANGED dump_vars

\* The splitter is called once on each argument text.
SplitNext == Fresh /\ \E s \in SplitTexts : Split(s)

SpecSplit == RuleInit /\ [][SplitNext]_vars

\* The nesting depth of s after its positions a..b, starting from depth d.
RECURSIVE DepthAfter(_, _, _, _)
DepthAfter(s, a, b, d) ==
  IF a > b THEN d
  ELSE DepthAfter(s, a + 1, b,
                  IF s[a] \in {"{", "("} THEN d + 1
                  ELSE IF s[a] \in {"}", ")"} THEN d - 1 ELSE d)

\* Positions i..j of s are a balanced pair: an opening character at i whose
\* closing character is at j, the depth staying positive in between.
BalancedPair(s, i, j) ==
  /\ s[i] \in {"{", "("}
  /\ s[j] \in {"}", ")"}
  /\ \A m \in i..(j - 1) : DepthAfter(s, i, m, 0) >= 1
  /\ DepthAfter(s, i, j, 0) = 0

\* Position k of s lies inside a balanced pair.
NestedAt(s, k) ==
  \E i \in 1..(k - 1) : \E j \in (k + 1)..Len(s) : BalancedPair(s, i, j)

\* The commas of s that lie inside no balanced pair.
TopCommas(s) == {k \in 1..Len(s) : s[k] = "," /\ ~NestedAt(s, k)}

\* The m-th smallest position of the set P.
NthOf(P, m) == CHOOSE x \in P : Cardinality({y \in P : y < x}) = m - 1

\* The m-th piece of s when it is cut at the positions of P.
Piece(s, P, m) ==
  LET from == IF m = 1 THEN 1 ELSE NthOf(P, m - 1) + 1
      to   == IF m = Cardinality(P) + 1 THEN Len(s) ELSE NthOf(P, m) - 1
  IN  SubSeq(s, from, to)

\* C21 (as claimed): the splitter cuts the argument text at every comma that
\* lies inside no balanced brace or parenthesis pair and nowhere else, and
\* each argument is the piece between two cuts without its leading and
\* trailing spaces and tabs.
X21_SplitAtTopCommas ==
  input.kind = "split"
  => LET P == TopCommas(input.text)
     IN  /\ Len(input.args) = Cardinality(P) + 1
         /\ \A m \in 1..(Cardinality(P) + 1) :
              m <= Len(input.args)
              => TrimsTo(Piece(input.text, P, m), input.args[m])

(***************************************************************************)
(* The value a rule is given within a row, checked under Spec.             *)
(***************************************************************************)
\* C22: in a rewritten row every cell a rule was evaluated for holds a result
\* of that rule on the cell as it was read from the input line, whatever
\* earlier rules of the row wrote, and every other cell holds what was read.
C22_RuleGivenOriginalCell ==
  \A k \in 1..Len(trace) :
    trace[k].kind = "ruled"
    => LET cin == Cells(trace[k].line)
           w == trace[k].working
           cols == trace[k].columns
           table_rules == replacement_rules[trace[k].table]
       IN  /\ Len(w) <= Len(cin)
           /\ \A i \in 1..Len(w) :
                IF i \in trace[k].applied
                THEN w[i] \in apply(table_rules[cols[i]], cin[i],
                                    RowContext(cols, SubSeq(cin, 1, Len(w))))
                ELSE w[i] = cin[i]

\* A row whose first cell a rule rewrote to another text before the rule of
\* its second cell, a hash of the cell's value, was evaluated.
W22_RewriteBeforeLaterRule ==
  \E k \in 1..Len(trace) :
    /\ trace[k].kind = "ruled"
    /\ trace[k].applied = {1, 2}
    /\ trace[k].working[1] # Cells(trace[k].line)[1]
    /\ replacement_rules[trace[k].table][trace[k].columns[2]].kind = "Composite"
    /\ replacement_rules[trace[k].table][trace[k].columns[2]].subs[1].kind = "Hash"
    /\ trace[k].working[2] # Cells(trace[k].line)[2]

(***************************************************************************)
(* Termination of the parser and of process_dump, checked under SpecRun.   *)
(***************************************************************************)
\* Every parse_template call made for a tag works on a text shorter than
\* the template the tag stands in.
NestedShorter ==
  \A n \in 1..Len(scan.stack) :
    ~scan.stack[n].raises
    => Len(scan.stack[n].raw) < scan.stack[n].within

\* A step of the constructor either ends the innermost call or moves its scan
\* index forward, calls it starts being placed above it.
ScanProgress ==
  (pc = "load" /\ scan.stack # <<>> /\ scan' # scan)
  => \/ Len(scan'.stack) < Len(scan.stack)
     \/ LET d == Len(scan'.stack) - Len(scan.stack)
        IN  /\ d >= 0
            /\ scan'.stack[d + 1].raw = scan.stack[1].raw
            /\ scan'.stack[d + 1].i > scan.stack[1].i
            /\ \A n \in 2..Len(scan.stack) : scan'.stack[d + n] = scan.stack[n]

OtherOps ==
  {<<"e", "q">>, <<"n", "e", "q">>, <<"i", "n">>, <<"E", "q">>, <<"=">>,
   <<"E", "Q", "U">>, <<>>}

OpConds == {TplNone, TplMatchesA1}
OpVals == {<<"1">>, <<"t", "r", "u", "e">>, <<"a">>}

\* IF(cond, op, val, T{{NONE}}, F{{NONE}})
OpArgs ==
  {<<cond, op, val, TplEchoT, TplEchoF>> :
     cond \in OpConds, op \in OtherOps \cup {OpEQ}, val \in OpVals}

OpValues == {<<>>, <<"1">>, <<"2">>, <<"a">>, <<"t", "r", "u", "e">>}

OpNext ==
  \/ \E args \in OpArgs : FirstCreateFuncRule(NameIF, args)
  \/ \E original_value \in OpValues, ctx \in Contexts :
       Evaluate(original_value, ctx)

SpecOp == RuleInit /\ [][OpNext]_vars

\* C24: an IF definition whose operator text is none of EQ, NEQ, IN is built
\* into a Conditional without a diagnostic, and every evaluation of it, on
\* any value and row, gives what the false branch gives.
C24_OtherOperatorFalseBranch ==
  (/\ input.kind = "call"
   /\ input.name = NameIF
   /\ Len(input.args) = 5
   /\ input.args[2] \notin {OpEQ, OpNEQ, OpIN})
  => /\ built.rule.kind = "Conditional"
     /\ built.rule.op = input.args[2]
     /\ built.log = 0
     /\ evaluated => result = TextF \o value

\* An IF definition with the operator eq and the comparison value 1 was
\* evaluated on the value 1 with a condition that gives the value back: the
\* result is F followed by the value.
W24_LowerCaseEqEqualValues ==
  /\ input.kind = "call"
  /\ input.name = NameIF
  /\ input.args[1] = TplNone
  /\ input.args[2] = <<"e", "q">>
  /\ input.args[3] = <<"1">>
  /\ evaluated
  /\ value = <<"1">>
  /\ result = <<"F", "1">>

=============================================================================
